---- MODULE Spec2Model ----
(***************************************************************************)
(* Layout engine of scripture-to-slides (src/esv_slides/pdf_generator.py): *)
(* the line wrapper, the element parser, the paginator and the inline      *)
(* verse segmenter of PDFGenerator, each as a state machine that steps     *)
(* through the loop of the method it models.                               *)
(*                                                                         *)
(* A Python str is a sequence of one-character strings; a list is a        *)
(* sequence; a (tag, content) tuple is a record.                           *)
(***************************************************************************)
EXTENDS Integers, Sequences, FiniteSets, TLC

VARIABLES
    pc,               \* position of the running method
    \* ---- _wrap_text
    text,             \* argument text
    max_width,        \* argument max_width
    words,            \* text.split()
    lines,            \* list of wrapped lines built so far
    current_line,     \* words of the line being filled
    word_i,           \* position of the for loop in words
    stringWidth,      \* widths the canvas has answered so far (string -> width)
    \* ---- _create_body_slides, pagination loop
    formatted_lines,  \* the flat wrapped-line sequence
    font_size,        \* self.body_font_size
    line_index,
    current_slide,
    lines_on_slide,
    pages,            \* slides handed to _create_single_body_slide_with_headings
    \* ---- _render_line_with_colored_verse_numbers, segmentation
    line,             \* argument line
    last_end,
    segments,
    \* ---- _parse_passage_elements
    passage_text,     \* argument text, as its '\n'-separated lines
    elements,
    current_body,
    is_poetry_passage,
    parse_i,          \* position of the for loop in the lines
    \* ---- _is_section_heading, called on its own
    heading_arg,      \* argument line
    heading_ret,      \* the value returned
    \* ---- _create_body_slides, the loop that wraps the elements
    elem_i,           \* position of the for loop in elements (0: not running)
    leading_spaces,   \* of the poetry element at hand
    \* ---- create_pdf
    passages,         \* argument: the passages, each a reference and a text
    passage_i,        \* position of the for loop in passages (0: not running)
    document,         \* pages shown on the canvas by the calls that returned
    saves,            \* number of calls of self.c.save()
    \* ---- ESVAPIClient.fetch_passage
    reference,        \* argument
    outcome,          \* what requests.get does: raise, or return a response
    data,             \* response.json()
    raised,           \* the exception on its way to the except clauses
    returns,          \* the values returned (none or one)
    exits,            \* the codes sys.exit was called with (none or one)
    \* ---- cli.get_references (it shares returns and exits)
    args,             \* argument: references and the input file
    references,       \* the list being built
    ref_i,            \* position of the for loop in args.references
    \* ---- config.load_config (it shares raised, returns and exits)
    config_file,      \* the file at get_config_file(): absent, or what it holds
    yaml_data,        \* data, the value of yaml.safe_load(f)
    config,           \* the Config built from data
    \* ---- cli.main, from the fetch loop on (it shares references and exits)
    separate,         \* args.separate
    output,           \* args.output
    main_passages,    \* passages, the results fetched so far
    fetch_i,          \* position of the for loop in references (0: not running)
    generated_files,  \* the paths generate_pdf returned
    gen_i,            \* position of the for loop in passages
    disk              \* the PDFs in the output directory: path -> what it shows

wrapVars  == <<text, max_width, words, lines, current_line, word_i, stringWidth>>
pageVars  == <<formatted_lines, font_size, line_index, current_slide,
               lines_on_slide, pages>>
segVars   == <<line, last_end, segments>>
parseVars == <<passage_text, elements, current_body, is_poetry_passage, parse_i>>
headVars  == <<heading_arg, heading_ret>>
\* the state of the methods modelled further down
fmtVars   == <<elem_i, leading_spaces>>
pdfVars   == <<passages, passage_i, document, saves>>
fetchVars == <<reference, outcome, data, raised, returns, exits>>
refsVars  == <<args, references, ref_i>>
cfgVars   == <<config_file, yaml_data, config>>
mainVars  == <<separate, output, main_passages, fetch_i, generated_files, gen_i, disk>>
laterVars == <<headVars, fmtVars, pdfVars, fetchVars, refsVars, cfgVars, mainVars>>
vars      == <<pc, wrapVars, pageVars, segVars, parseVars, laterVars>>

----------------------------------------------------------------------------
(* Bounds of the model *)

\* longest text handed to _wrap_text, in characters
MaxTextLen == 5
\* largest max_width; the canvas answers widths in 0 .. MaxWidth + 1
MaxWidth == 2
\* longest wrapped-line sequence handed to the pagination loop
MaxFormattedLines == 4
\* largest line budget of a slide (font sizes are drawn to give 0 .. MaxBudget)
MaxBudget == 3
\* longest line handed to the verse segmenter, in characters
MaxLineLen == 6
\* most lines of a passage text handed to the element parser
MaxPassageLines == 4
MaxHeadingLen == 4
\* most elements handed to the wrapping loop of _create_body_slides
MaxElements == 2
\* deepest indentation, in spaces, the canvas widths are laid out around
MaxIndent == 2
\* most passages handed to create_pdf
MaxPassages == 3

----------------------------------------------------------------------------
(* Strings *)

\* characters of the texts that are wrapped
WrapChars == {" ", "a", "b"}

StringsUpTo(chars, n) == UNION {[1..k -> chars] : k \in 0..n}

\* str.split(): the maximal runs of non-whitespace characters, in order
Split(s) ==
    LET RECURSIVE go(_, _, _)
        go(i, cur, acc) ==
            IF i > Len(s)
            THEN IF cur = <<>> THEN acc ELSE Append(acc, cur)
            ELSE IF s[i] = " "
                 THEN go(i + 1, <<>>, IF cur = <<>> THEN acc ELSE Append(acc, cur))
                 ELSE go(i + 1, Append(cur, s[i]), acc)
    IN go(1, <<>>, <<>>)

RECURSIVE JoinTight(_)
JoinTight(ws) == IF ws = <<>> THEN <<>> ELSE ws[1] \o JoinTight(Tail(ws))

\* ' '.join(ws)
RECURSIVE Join(_)
Join(ws) ==
    IF ws = <<>> THEN <<>>
    ELSE IF Len(ws) = 1 THEN ws[1]
    ELSE ws[1] \o <<" ">> \o Join(Tail(ws))

----------------------------------------------------------------------------
(* The canvas: self.c.stringWidth(s, font_name, font_size).  Any            *)
(* deterministic measurement: the width of a string is chosen when the      *)
(* string is first measured and is the same at every later call.            *)

SLIDE_WIDTH == 1920
MARGIN_LEFT == 150
MARGIN_RIGHT == 150

\* line 253
available_width == SLIDE_WIDTH - MARGIN_LEFT - MARGIN_RIGHT

\* leading_spaces * (self.body_font_size * 0.3) (line 266); the font sizes
\* drawn are multiples of 10, so the product is a whole number
indent_offset(n) == n * ((3 * font_size) \div 10)

\* widths around the limits the wrapping loop passes: each limit itself, a
\* width that fits every limit and one that fits none
FormatWidths ==
    {0, available_width + 1}
      \cup {w \in {available_width - indent_offset(n) : n \in 0..MaxIndent} : w >= 0}

\* a lone call of _wrap_text is measured on 0 .. MaxWidth + 1, the calls of
\* the wrapping loop on FormatWidths
Widths == IF elem_i = 0 THEN 0 .. (MaxWidth + 1) ELSE FormatWidths

\* the widths the canvas can answer for s, given what it has answered so far
WidthsOf(s) == IF s \in DOMAIN stringWidth THEN {stringWidth[s]} ELSE Widths

Remember(s, w) ==
    IF s \in DOMAIN stringWidth THEN stringWidth ELSE (s :> w) @@ stringWidth

----------------------------------------------------------------------------
(* PDFGenerator._wrap_text *)

WrapIdle ==
    /\ text = <<>> /\ max_width = 0 /\ words = <<>> /\ lines = <<>>
    /\ current_line = <<>> /\ word_i = 0 /\ stringWidth = <<>>

\* _wrap_text touches nothing of the other methods
WrapFrame == UNCHANGED <<pageVars, segVars, parseVars, laterVars>>

WordFitsLax(width) == width <= max_width + 1

WordFitsStrict(width) == width < max_width

\* `if width <= max_width` (line 145)
WordFits(width) == width <= max_width

ClosedLinesUnguarded == Append(lines, Join(current_line))

\* `if current_line: lines.append(' '.join(current_line))` (lines 149-150, 154-155)
ClosedLines == IF current_line # <<>> THEN Append(lines, Join(current_line)) ELSE lines

\* entry: words = text.split(); lines = []; current_line = []
WrapStart ==
    /\ pc = "wrap_call"
    /\ words' = Split(text)
    /\ lines' = <<>>
    /\ current_line' = <<>>
    /\ word_i' = 1
    /\ pc' = "wrap_loop"
    /\ UNCHANGED <<text, max_width, stringWidth>>
    /\ WrapFrame

\* loop body, branch width <= max_width
WrapAppend ==
    /\ pc = "wrap_loop"
    /\ word_i <= Len(words)
    /\ LET test_line == Join(Append(current_line, words[word_i])) IN
       \E width \in WidthsOf(test_line) :
          /\ WordFits(width)
          /\ stringWidth' = Remember(test_line, width)
          /\ current_line' = Append(current_line, words[word_i])
    /\ word_i' = word_i + 1
    /\ UNCHANGED <<pc, text, max_width, words, lines>>
    /\ WrapFrame

\* loop body, else branch: close the current line, start a new one
WrapBreak ==
    /\ pc = "wrap_loop"
    /\ word_i <= Len(words)
    /\ LET test_line == Join(Append(current_line, words[word_i])) IN
       \E width \in WidthsOf(test_line) :
          /\ ~WordFits(width)
          /\ stringWidth' = Remember(test_line, width)
          /\ lines' = ClosedLines
          /\ current_line' = <<words[word_i]>>
    /\ word_i' = word_i + 1
    /\ UNCHANGED <<pc, text, max_width, words>>
    /\ WrapFrame

\* after the loop: add the remaining words, return lines
WrapReturn ==
    /\ pc = "wrap_loop"
    /\ word_i > Len(words)
    /\ lines' = ClosedLines
    /\ pc' = "wrap_done"
    /\ UNCHANGED <<text, max_width, words, current_line, word_i, stringWidth>>
    /\ WrapFrame

PageIdle ==
    /\ formatted_lines = <<>> /\ font_size = 64 /\ line_index = 0
    /\ current_slide = <<>> /\ lines_on_slide = 0 /\ pages = <<>>

SegIdle == line = <<>> /\ last_end = 0 /\ segments = <<>>

ParseIdle ==
    /\ passage_text = <<>> /\ elements = <<>> /\ current_body = <<>>
    /\ is_poetry_passage = FALSE /\ parse_i = 0

HeadIdle == heading_arg = <<>> /\ heading_ret = "none"

FmtIdle == elem_i = 0 /\ leading_spaces = 0

PdfIdle == passages = <<>> /\ passage_i = 0 /\ document = <<>> /\ saves = 0

FetchIdle ==
    /\ reference = "" /\ outcome = <<>> /\ data = <<>>
    /\ raised = "" /\ returns = <<>> /\ exits = <<>>

RefsIdle == args = <<>> /\ references = <<>> /\ ref_i = 0

CfgIdle == config_file = <<>> /\ yaml_data = <<>> /\ config = <<>>

MainIdle ==
    /\ separate = FALSE /\ output = <<>> /\ main_passages = <<>> /\ fetch_i = 0
    /\ generated_files = <<>> /\ gen_i = 0 /\ disk = <<>>

LaterIdle == HeadIdle /\ FmtIdle /\ PdfIdle /\ FetchIdle /\ RefsIdle /\ CfgIdle /\ MainIdle

InitWrap ==
    /\ pc = "wrap_call"
    /\ text \in StringsUpTo(WrapChars, MaxTextLen)
    /\ max_width \in 0..MaxWidth
    /\ words = <<>> /\ lines = <<>> /\ current_line = <<>> /\ word_i = 0
    /\ stringWidth = <<>>
    /\ PageIdle /\ SegIdle /\ ParseIdle /\ LaterIdle

NextWrap ==
    \/ WrapStart
    \/ WrapAppend
    \/ WrapBreak
    \/ WrapReturn

SpecWrap == InitWrap /\ [][NextWrap]_vars

----------------------------------------------------------------------------
(* Claims about _wrap_text *)

RECURSIVE Flatten(_)
Flatten(ss) == IF ss = <<>> THEN <<>> ELSE Head(ss) \o Flatten(Tail(ss))

\* the words of each line of ls, in order
WordsOfLines(ls) == Flatten([i \in DOMAIN ls |-> Split(ls[i])])

\* a line is within the width unless it is one word that is itself too wide
LineWithinWidth(l) ==
    \A w \in WidthsOf(l) :
        \/ w <= max_width
        \/ /\ Len(Split(l)) = 1
           /\ \A ww \in (IF Split(l)[1] = l THEN {w} ELSE WidthsOf(Split(l)[1])) :
                  ww > max_width

\* C1 (as amended): every line returned by _wrap_text has measured width
\* <= max_width unless it is exactly one word whose own width exceeds
\* max_width; so a text of more than one word whose words, joined by single
\* spaces, measure more than max_width yields more than one line.
C1_WrapWithinWidth ==
    /\ \A i \in DOMAIN lines : LineWithinWidth(lines[i])
    /\ pc = "wrap_done" =>
         \A w \in WidthsOf(Join(Split(text))) :
            (w > max_width /\ Len(Split(text)) > 1) => Len(lines) > 1

\* C1 as claimed: the same, with the measured width of the text itself.
C1_WrapWithinWidth_Original ==
    /\ \A i \in DOMAIN lines : LineWithinWidth(lines[i])
    /\ pc = "wrap_done" =>
         \A w \in WidthsOf(text) :
            (w > max_width /\ Len(Split(text)) > 1) => Len(lines) > 1

\* a returned line of one word measured wider than max_width, followed by a
\* returned line of two words
C1_Witness ==
    /\ pc = "wrap_done"
    /\ Len(lines) = 2
    /\ Len(Split(lines[1])) = 1
    /\ lines[1] \in DOMAIN stringWidth /\ stringWidth[lines[1]] > max_width
    /\ Len(Split(lines[2])) = 2

\* C2: the lines returned by _wrap_text partition the word sequence of the
\* text into consecutive non-empty runs: their words, in order, are the words
\* of the text, every line holds a word, and a text without words yields no line.
C2_WrapPartitionsWords ==
    pc = "wrap_done" =>
        /\ WordsOfLines(lines) = Split(text)
        /\ \A i \in DOMAIN lines : Split(lines[i]) # <<>>
        /\ Split(text) = <<>> => lines = <<>>

\* a text of three words wrapped into a line of two words and a line of one
C2_Witness ==
    /\ pc = "wrap_done"
    /\ Len(lines) = 2
    /\ Len(Split(lines[1])) = 2
    /\ Len(Split(text)) = 3

----------------------------------------------------------------------------
(* PDFGenerator._create_body_slides, the pagination loop (lines 285-346) *)

SLIDE_HEIGHT == 1080
MARGIN_TOP == 150
MARGIN_BOTTOM == 120

\* contents of wrapped lines; the loop never looks inside them
Contents == {"x", "y"}
LineItems == [type : {"heading", "body", "poetry"}, text : Contents]

available_height == SLIDE_HEIGHT - MARGIN_TOP - MARGIN_BOTTOM

\* body font sizes giving the budgets 1 .. MaxBudget, and one giving budget 0
FontSizes ==
    {(2 * available_height) \div (3 * k) : k \in 1..MaxBudget} \cup {2 * available_height}

\* int(available_height / line_height), line_height = self.body_font_size * 1.5
max_lines == (2 * available_height) \div (3 * font_size)

\* the line the inner loop looks at (line_index counts from 0)
line_item == formatted_lines[line_index + 1]

LinesNeededAlwaysTwo == IF Len(current_slide) >= 0 THEN 2 ELSE 1

\* 2 if len(current_slide) > 0 else 1
lines_needed == IF Len(current_slide) > 0 THEN 2 ELSE 1

HasBodyAfterNever == FALSE

has_body_after ==
    /\ line_index + 1 < Len(formatted_lines)
    /\ formatted_lines[line_index + 2].type = "body"

total_needed == IF has_body_after THEN lines_needed + 1 ELSE lines_needed

HeadingBreaksUnguarded == lines_on_slide + total_needed > max_lines

\* the break before a heading (line 323)
HeadingBreaks ==
    lines_on_slide + total_needed > max_lines /\ Len(current_slide) > 0

BodyBreaksOffByOne == lines_on_slide > max_lines

BodyBreaksEarly == lines_on_slide + 2 > max_lines

\* the break before a body or poetry line (line 333)
BodyBreaks == lines_on_slide + 1 > max_lines

EmitsSlideAlways == TRUE

EmitsSlideIfSeveral == Len(current_slide) > 1

\* `if current_slide:` (line 343)
EmitsSlide == current_slide # <<>>

PageFrame == UNCHANGED <<wrapVars, segVars, parseVars, laterVars>>

\* outer while, condition true: current_slide = []; lines_on_slide = 0
PageNewSlide ==
    /\ pc = "page_outer"
    /\ line_index < Len(formatted_lines)
    /\ current_slide' = <<>>
    /\ lines_on_slide' = 0
    /\ pc' = "page_inner"
    /\ UNCHANGED <<formatted_lines, font_size, line_index, pages>>
    /\ PageFrame

\* outer while, condition false: the method returns
PageReturn ==
    /\ pc = "page_outer"
    /\ line_index >= Len(formatted_lines)
    /\ pc' = "page_done"
    /\ UNCHANGED pageVars
    /\ PageFrame

\* inner while, a heading that is placed
PageHeadingPlace ==
    /\ pc = "page_inner"
    /\ line_index < Len(formatted_lines)
    /\ line_item.type = "heading"
    /\ ~HeadingBreaks
    /\ current_slide' = Append(current_slide, line_item)
    /\ lines_on_slide' = lines_on_slide + lines_needed
    /\ line_index' = line_index + 1
    /\ UNCHANGED <<pc, formatted_lines, font_size, pages>>
    /\ PageFrame

\* inner while, break before a heading
PageHeadingBreak ==
    /\ pc = "page_inner"
    /\ line_index < Len(formatted_lines)
    /\ line_item.type = "heading"
    /\ HeadingBreaks
    /\ pc' = "page_emit"
    /\ UNCHANGED pageVars
    /\ PageFrame

\* inner while, a body or poetry line that is placed
PageBodyPlace ==
    /\ pc = "page_inner"
    /\ line_index < Len(formatted_lines)
    /\ line_item.type # "heading"
    /\ ~BodyBreaks
    /\ current_slide' = Append(current_slide, line_item)
    /\ lines_on_slide' = lines_on_slide + 1
    /\ line_index' = line_index + 1
    /\ UNCHANGED <<pc, formatted_lines, font_size, pages>>
    /\ PageFrame

\* inner while, break before a body or poetry line
PageBodyBreak ==
    /\ pc = "page_inner"
    /\ line_index < Len(formatted_lines)
    /\ line_item.type # "heading"
    /\ BodyBreaks
    /\ pc' = "page_emit"
    /\ UNCHANGED pageVars
    /\ PageFrame

\* inner while, condition false: the input is exhausted
PageInnerEnd ==
    /\ pc = "page_inner"
    /\ line_index >= Len(formatted_lines)
    /\ pc' = "page_emit"
    /\ UNCHANGED pageVars
    /\ PageFrame

\* after the inner loop: the slide is created from the accumulated lines
PageEmitSlide ==
    /\ pc = "page_emit"
    /\ EmitsSlide
    /\ pages' = Append(pages, current_slide)
    /\ pc' = "page_outer"
    /\ UNCHANGED <<formatted_lines, font_size, line_index, current_slide, lines_on_slide>>
    /\ PageFrame

\* after the inner loop: nothing accumulated, no slide is created
PageSkipSlide ==
    /\ pc = "page_emit"
    /\ ~EmitsSlide
    /\ pc' = "page_outer"
    /\ UNCHANGED pageVars
    /\ PageFrame

InitPage ==
    /\ pc = "page_outer"
    /\ formatted_lines \in StringsUpTo(LineItems, MaxFormattedLines)
    /\ font_size \in FontSizes
    /\ line_index = 0
    /\ current_slide = <<>> /\ lines_on_slide = 0 /\ pages = <<>>
    /\ WrapIdle /\ SegIdle /\ ParseIdle /\ LaterIdle

NextPage ==
    \/ PageNewSlide
    \/ PageReturn
    \/ PageHeadingPlace
    \/ PageHeadingBreak
    \/ PageBodyPlace
    \/ PageBodyBreak
    \/ PageInnerEnd
    \/ PageEmitSlide
    \/ PageSkipSlide

SpecPage == InitPage /\ [][NextPage]_vars

\* the loop is sequential code: a step that can be taken is taken
SpecPageFair == SpecPage /\ WF_vars(NextPage)

----------------------------------------------------------------------------
(* Claims about the pagination loop *)

\* budget units of a slide: 1 per body or poetry line, 1 for a heading that
\* is first on the slide, 2 for any other heading
RECURSIVE UnitsFrom(_, _)
UnitsFrom(slide, i) ==
    IF i > Len(slide) THEN 0
    ELSE (IF slide[i].type = "heading" /\ i > 1 THEN 2 ELSE 1) + UnitsFrom(slide, i + 1)

lineCount(slide) == UnitsFrom(slide, 1)

\* the lines placed on slides so far, in slide order
Placed == Flatten(pages)

\* number of the slide that holds the k-th placed line
RECURSIVE SlideOfFrom(_, _)
SlideOfFrom(k, p) ==
    IF k <= Len(pages[p]) THEN p ELSE SlideOfFrom(k - Len(pages[p]), p + 1)

SlideOf(k) == SlideOfFrom(k, 1)

\* whether the k-th placed line is the first item of its slide
RECURSIVE FirstOnSlideFrom(_, _)
FirstOnSlideFrom(k, p) ==
    IF k <= Len(pages[p]) THEN k = 1 ELSE FirstOnSlideFrom(k - Len(pages[p]), p + 1)

FirstOnSlide(k) == FirstOnSlideFrom(k, 1)

\* C3: every emitted slide has lineCount <= max_lines, except a slide whose
\* only content is a single element placed on an empty slide.
C3_SlideWithinBudget ==
    \A p \in DOMAIN pages : lineCount(pages[p]) <= max_lines \/ Len(pages[p]) = 1

\* a slide filled to its budget with a heading that is not its first item,
\* closed because the next line did not fit
C3_Witness ==
    /\ pc = "page_done"
    /\ Len(pages) = 2
    /\ Len(pages[1]) = 2
    /\ pages[1][2].type = "heading"
    /\ lineCount(pages[1]) = max_lines

\* C4: whenever a heading is immediately followed by a body line, both are on
\* the same slide or the heading is the first item of its slide.
C4_NoOrphanedHeading ==
    \A k \in 1 .. (Len(Placed) - 1) :
        (formatted_lines[k].type = "heading" /\ formatted_lines[k + 1].type = "body")
            => (SlideOf(k) = SlideOf(k + 1) \/ FirstOnSlide(k))

\* the look-ahead moved a heading that alone would still have fit to the next
\* slide, where its body line follows it
C4_Witness ==
    /\ pc = "page_done"
    /\ Len(pages) = 2
    /\ lineCount(pages[1]) + 2 <= max_lines
    /\ pages[2][1].type = "heading"
    /\ Len(pages[2]) >= 2 /\ pages[2][2].type = "body"

\* C5: pagination terminates for every wrapped-line sequence and every
\* max_lines, max_lines < 1 included.
C5_PaginationTerminates == <>(pc = "page_done")

\* C6: no empty slide is ever emitted as a page.
C6_NoEmptySlide == \A p \in DOMAIN pages : pages[p] # <<>>

\* a pass of the outer loop has ended with nothing accumulated, after a slide
\* was emitted
C6_Witness ==
    /\ pc = "page_outer"
    /\ current_slide = <<>>
    /\ line_index < Len(formatted_lines)
    /\ Len(pages) = 1

\* C7: when pagination finishes, the lines of the emitted slides, in slide
\* order, are the input sequence: same lines, same order, same tags.
C7_SlidesReproduceInput == pc = "page_done" => Placed = formatted_lines

\* a sequence with lines of every tag and of different content, paginated
\* into several slides
C7_Witness ==
    /\ pc = "page_done"
    /\ Len(pages) >= 2
    /\ \E i, j, k \in DOMAIN formatted_lines :
          /\ formatted_lines[i].type = "heading"
          /\ formatted_lines[j].type = "body"
          /\ formatted_lines[k].type = "poetry"
          /\ formatted_lines[j].text # formatted_lines[k].text

----------------------------------------------------------------------------
(* PDFGenerator._render_line_with_colored_verse_numbers, the segmentation  *)
(* of the line (lines 359-379)                                             *)

Digits == {"1", "2"}
SegChars == {"[", "]", "a"} \cup Digits

\* end of the run of digits that starts at position i of s (i - 1 if none)
RECURSIVE DigitRunEnd(_, _)
DigitRunEnd(s, i) ==
    IF i <= Len(s) /\ s[i] \in Digits THEN DigitRunEnd(s, i + 1) ELSE i - 1

\* re.match(r'\[(\d+)\]') at position i of s: the position of the closing
\* bracket, or 0 when the pattern does not match there
MatchEnd(s, i) ==
    IF i <= Len(s) /\ s[i] = "["
    THEN LET e == DigitRunEnd(s, i + 1) IN
         IF e >= i + 1 /\ e + 1 <= Len(s) /\ s[e + 1] = "]" THEN e + 1 ELSE 0
    ELSE 0

\* the next match re.finditer yields: the leftmost position >= from where the
\* pattern matches, or 0 when there is none
RECURSIVE NextMatch(_, _)
NextMatch(s, from) ==
    IF from > Len(s) THEN 0
    ELSE IF MatchEnd(s, from) # 0 THEN from
    ELSE NextMatch(s, from + 1)

\* positions are counted from 1 here: match.start() is start - 1,
\* match.end() is MatchEnd, line[a:b] is SubSeq(line, a + 1, b)

HasTextBeforeAlways(start) == TRUE

\* `if match.start() > last_end` (line 370)
HasTextBefore(start) == start - 1 > last_end

GroupWithBrackets(start) == SubSeq(line, start, MatchEnd(line, start))

\* match.group(1): the digits, without the brackets (line 374)
Group1(start) == SubSeq(line, start + 1, MatchEnd(line, start) - 1)

SegFrame == UNCHANGED <<wrapVars, pageVars, parseVars, laterVars>>

\* one pass of `for match in re.finditer(pattern, line)`
SegMatch ==
    /\ pc = "seg_loop"
    /\ LET start == NextMatch(line, last_end + 1) IN
       /\ start # 0
       /\ segments' =
            Append(IF HasTextBefore(start)
                   THEN Append(segments,
                               [type |-> "text", text |-> SubSeq(line, last_end + 1, start - 1)])
                   ELSE segments,
                   [type |-> "verse", text |-> Group1(start)])
       /\ last_end' = MatchEnd(line, start)
    /\ UNCHANGED <<pc, line>>
    /\ SegFrame

\* no further match: `if last_end < len(line)` adds the remaining text
SegRemainder ==
    /\ pc = "seg_loop"
    /\ NextMatch(line, last_end + 1) = 0
    /\ segments' =
         IF last_end < Len(line)
         THEN Append(segments, [type |-> "text", text |-> SubSeq(line, last_end + 1, Len(line))])
         ELSE segments
    /\ pc' = "seg_done"
    /\ UNCHANGED <<line, last_end>>
    /\ SegFrame

InitSeg ==
    /\ pc = "seg_loop"
    /\ line \in StringsUpTo(SegChars, MaxLineLen)
    /\ last_end = 0
    /\ segments = <<>>
    /\ WrapIdle /\ PageIdle /\ ParseIdle /\ LaterIdle

NextSeg ==
    \/ SegMatch
    \/ SegRemainder

SpecSeg == InitSeg /\ [][NextSeg]_vars

----------------------------------------------------------------------------
(* Claims about the verse segmenter *)

\* a segment written back as it stood in the line
Written(seg) ==
    IF seg.type = "verse" THEN <<"[">> \o seg.text \o <<"]">> ELSE seg.text

Reassembled(segs) == Flatten([i \in DOMAIN segs |-> Written(segs[i])])

\* C8: the text segments verbatim and each verse-number segment as
\* '[' + digits + ']', concatenated in order, are the original line.
C8_SegmenterRoundTrip == pc = "seg_done" => Reassembled(segments) = line

\* a line with text before and after a marker has been segmented
C8_Witness ==
    /\ pc = "seg_done"
    /\ Len(segments) = 3
    /\ segments[1].type = "text"
    /\ segments[2].type = "verse"
    /\ segments[3].type = "text"

\* the positions of s where a '[', one or more digits and a ']' stand
MarkerStarts(s) ==
    {i \in 1..Len(s) :
        \E e \in (i + 2)..Len(s) :
            /\ s[i] = "[" /\ s[e] = "]"
            /\ \A k \in (i + 1)..(e - 1) : s[k] \in Digits}

\* the digits of the marker that starts at position i of s
MarkerDigits(s, i) ==
    LET e == CHOOSE e \in (i + 2)..Len(s) :
                 s[e] = "]" /\ \A k \in (i + 1)..(e - 1) : s[k] \in Digits
    IN SubSeq(s, i + 1, e - 1)

\* the elements of the set of positions S in increasing order
RECURSIVE Ascending(_)
Ascending(S) ==
    IF S = {} THEN <<>>
    ELSE LET m == CHOOSE m \in S : \A x \in S : m <= x
         IN <<m>> \o Ascending(S \ {m})

\* the subsequence of the segments of one type
RECURSIVE OfType(_, _)
OfType(segs, t) ==
    IF segs = <<>> THEN <<>>
    ELSE (IF Head(segs).type = t THEN <<Head(segs).text>> ELSE <<>>) \o OfType(Tail(segs), t)

\* C9: one verse-number segment per marker '[<digits>]' of the line, left to
\* right, holding only the digits; every text segment is non-empty, no two
\* text segments are adjacent, and no text segment holds a marker (brackets
\* that do not form a marker stay in the text segments).
C9_SegmentsAreMarkersAndText ==
    pc = "seg_done" =>
        /\ OfType(segments, "verse") =
             [k \in DOMAIN Ascending(MarkerStarts(line)) |->
                 MarkerDigits(line, Ascending(MarkerStarts(line))[k])]
        /\ \A i \in DOMAIN segments :
              /\ segments[i].type \in {"verse", "text"}
              /\ segments[i].type = "verse" =>
                    /\ segments[i].text # <<>>
                    /\ \A k \in DOMAIN segments[i].text : segments[i].text[k] \in Digits
              /\ segments[i].type = "text" =>
                    /\ segments[i].text # <<>>
                    /\ MarkerStarts(segments[i].text) = {}
        /\ \A i \in 1 .. (Len(segments) - 1) :
              ~(segments[i].type = "text" /\ segments[i + 1].type = "text")
        /\ Len(Flatten(OfType(segments, "text"))) + Len(Flatten(OfType(segments, "verse")))
             + 2 * Cardinality(MarkerStarts(line)) = Len(line)

\* a line with a marker of two digits and brackets that form no marker: the
\* brackets stay in a text segment
C9_Witness ==
    /\ pc = "seg_done"
    /\ \E i \in DOMAIN segments : segments[i].type = "verse" /\ Len(segments[i].text) = 2
    /\ \E i \in DOMAIN segments :
          /\ segments[i].type = "text"
          /\ \E k \in DOMAIN segments[i].text : segments[i].text[k] \in {"[", "]"}

----------------------------------------------------------------------------
(* PDFGenerator._is_section_heading, _is_poetry, _parse_passage_elements *)

\* lines of passage texts: empty, blank, plain, with trailing space, indented,
\* with a verse marker, indented with a verse marker, with brackets that are
\* no marker
SampleLines ==
    { <<>>,
      <<" ">>,
      <<"a">>,
      <<"a", " ">>,
      <<" ", "a">>,
      <<" ", " ", "a">>,
      <<"[", "1", "]", "a">>,
      <<" ", "[", "1", "]", "a">>,
      <<"[", "a", "]">> }

\* str.lstrip(' ')
RECURSIVE LStrip(_)
LStrip(s) == IF s # <<>> /\ Head(s) = " " THEN LStrip(Tail(s)) ELSE s

RECURSIVE RStrip(_)
RStrip(s) == IF s # <<>> /\ s[Len(s)] = " " THEN RStrip(SubSeq(s, 1, Len(s) - 1)) ELSE s

\* str.strip()
Strip(s) == RStrip(LStrip(s))

\* Python values a predicate can return: a str or a bool
PyStr(s) == [py |-> "str", val |-> s]
PyBool(b) == [py |-> "bool", val |-> b]
Truthy(v) == IF v.py = "str" THEN v.val # <<>> ELSE v.val

ReSearchAtStart(s) == MatchEnd(s, 1) # 0

\* re.search(r'\[\d+\]', s) finds a match
ReSearch(s) == NextMatch(s, 1) # 0

\* `line and line[0] == ' '`, as a truth value (line 172)
has_leading_spaces(l) == l # <<>> /\ l[1] = " "

\* the value of `stripped and not re.search(...) and not has_leading_spaces`
is_section_heading(l) ==
    LET stripped == Strip(l) IN
    IF stripped = <<>> THEN PyStr(stripped)
    ELSE IF ReSearch(stripped) THEN PyBool(FALSE)
    ELSE PyBool(~has_leading_spaces(l))

\* _is_poetry: the loop over text.split('\n'), from line i on
RECURSIVE IsPoetryFrom(_, _)
IsPoetryFrom(ls, i) ==
    IF i > Len(ls) THEN FALSE
    ELSE IF ls[i] # <<>> /\ ls[i][1] = " " /\ Strip(ls[i]) # <<>> THEN TRUE
    ELSE IsPoetryFrom(ls, i + 1)

is_poetry_after_first(ls) == IsPoetryFrom(ls, 2)

is_poetry(ls) == IsPoetryFrom(ls, 1)

Element(t, c) == [type |-> t, content |-> c]

BufferedAlwaysStripped(l) == Strip(l)

\* what a non-heading line adds to current_body (lines 226-229)
Buffered(l) == IF is_poetry_passage THEN l ELSE Strip(l)

FlushedNothing == elements

\* elements after the accumulated body text is saved (lines 213-221, 232-237)
Flushed ==
    IF current_body = <<>> THEN elements
    ELSE IF is_poetry_passage
         THEN elements \o [i \in DOMAIN current_body |-> Element("poetry", current_body[i])]
         ELSE Append(elements, Element("body", Join(current_body)))

ParseFrame == UNCHANGED <<wrapVars, pageVars, segVars, laterVars>>

\* entry: lines = text.split("\n"); is_poetry_passage = self._is_poetry(text)
ParseStart ==
    /\ pc = "parse_call"
    /\ elements' = <<>>
    /\ current_body' = <<>>
    /\ is_poetry_passage' = is_poetry(passage_text)
    /\ parse_i' = 1
    /\ pc' = "parse_loop"
    /\ UNCHANGED passage_text
    /\ ParseFrame

\* loop body, `if not stripped: continue`
ParseBlank ==
    /\ pc = "parse_loop"
    /\ parse_i <= Len(passage_text)
    /\ Strip(passage_text[parse_i]) = <<>>
    /\ parse_i' = parse_i + 1
    /\ UNCHANGED <<pc, passage_text, elements, current_body, is_poetry_passage>>
    /\ ParseFrame

\* loop body, a section heading: save the body text, add the heading
ParseHeading ==
    /\ pc = "parse_loop"
    /\ parse_i <= Len(passage_text)
    /\ Strip(passage_text[parse_i]) # <<>>
    /\ Truthy(is_section_heading(passage_text[parse_i]))
    /\ elements' = Append(Flushed, Element("heading", Strip(passage_text[parse_i])))
    /\ current_body' = <<>>
    /\ parse_i' = parse_i + 1
    /\ UNCHANGED <<pc, passage_text, is_poetry_passage>>
    /\ ParseFrame

\* loop body, any other line: accumulate body text
ParseBody ==
    /\ pc = "parse_loop"
    /\ parse_i <= Len(passage_text)
    /\ Strip(passage_text[parse_i]) # <<>>
    /\ ~Truthy(is_section_heading(passage_text[parse_i]))
    /\ current_body' = Append(current_body, Buffered(passage_text[parse_i]))
    /\ parse_i' = parse_i + 1
    /\ UNCHANGED <<pc, passage_text, elements, is_poetry_passage>>
    /\ ParseFrame

\* after the loop: add the remaining body text, return elements
ParseReturn ==
    /\ pc = "parse_loop"
    /\ parse_i > Len(passage_text)
    /\ elements' = Flushed
    /\ pc' = "parse_done"
    /\ UNCHANGED <<passage_text, current_body, is_poetry_passage, parse_i>>
    /\ ParseFrame

\* text.split("\n") is never empty: a text without '\n' is one line
InitParse ==
    /\ pc = "parse_call"
    /\ passage_text \in StringsUpTo(SampleLines, MaxPassageLines) \ {<<>>}
    /\ elements = <<>> /\ current_body = <<>>
    /\ is_poetry_passage = FALSE /\ parse_i = 0
    /\ WrapIdle /\ PageIdle /\ SegIdle /\ LaterIdle

NextParse ==
    \/ ParseStart
    \/ ParseBlank
    \/ ParseHeading
    \/ ParseBody
    \/ ParseReturn

SpecParse == InitParse /\ [][NextParse]_vars

----------------------------------------------------------------------------
(* Claims about the element parser *)

NonBlank(l) == \E k \in DOMAIN l : l[k] # " "

Indented(l) == l # <<>> /\ l[1] = " "

\* a heading line: non-blank, without a marker, not indented
HeadingLine(l) == NonBlank(l) /\ MarkerStarts(l) = {} /\ ~Indented(l)

\* the non-blank lines of the passage that are no heading, in order
BodyLinesOf(ls) ==
    LET keep(l) == NonBlank(l) /\ ~HeadingLine(l) IN SelectSeq(ls, keep)

NonHeadingElements ==
    LET keep(e) == e.type # "heading" IN SelectSeq(elements, keep)

\* C10: in a passage with at least one indented non-blank line, every
\* non-blank line that is no heading is emitted as exactly one poetry element
\* holding the raw line, lines without leading space included, and no body
\* element is emitted.
C10_PoetryPassageKeepsRawLines ==
    (/\ pc = "parse_done"
     /\ \E i \in DOMAIN passage_text :
           Indented(passage_text[i]) /\ NonBlank(passage_text[i]))
    => /\ NonHeadingElements =
            [i \in DOMAIN BodyLinesOf(passage_text) |->
                Element("poetry", BodyLinesOf(passage_text)[i])]
       /\ \A i \in DOMAIN elements : elements[i].type # "body"

\* a poetry passage parsed into a heading, a poetry element without leading
\* space and a poetry element with its indentation
C10_Witness ==
    /\ pc = "parse_done"
    /\ \E i, j, k \in DOMAIN elements :
          /\ elements[i].type = "heading"
          /\ elements[j].type = "poetry" /\ elements[j].content[1] # " "
          /\ elements[k].type = "poetry" /\ elements[k].content[1] = " "

\* the characters of s that are no whitespace, in order
NonWhitespace(s) == LET keep(c) == c # " " IN SelectSeq(s, keep)

\* C11: the non-whitespace characters of the returned elements, in element
\* order, are the non-whitespace characters of the text, in order.
C11_ParseKeepsNonWhitespace ==
    pc = "parse_done" =>
        NonWhitespace(Flatten([i \in DOMAIN elements |-> elements[i].content]))
          = NonWhitespace(Flatten(passage_text))

\* a prose passage with a blank line between two verse lines, joined into one
\* body element after a heading
C11_Witness ==
    /\ pc = "parse_done"
    /\ Len(elements) = 2
    /\ elements[1].type = "heading"
    /\ elements[2].type = "body"
    /\ \E k \in DOMAIN elements[2].content : elements[2].content[k] = " "
    /\ \E i \in DOMAIN passage_text : passage_text[i] = <<" ">>

\* C13: _is_poetry returns true exactly when some line of the text begins
\* with a space and has non-empty stripped content.
C13_IsPoetryIffIndentedLine ==
    pc # "parse_call" =>
        (is_poetry_passage <=>
            \E i \in DOMAIN passage_text :
                Indented(passage_text[i]) /\ NonBlank(passage_text[i]))

\* true for a text whose first line is blank though it begins with a space,
\* and whose indented line comes later
C13_Witness ==
    /\ pc = "parse_loop"
    /\ is_poetry_passage
    /\ passage_text[1] = <<" ">>
    /\ ~Indented(passage_text[2])

----------------------------------------------------------------------------
(* PDFGenerator._is_section_heading, called on one line *)

HeadChars == {" ", "a", "[", "]", "1"}

HeadFrame ==
    UNCHANGED <<wrapVars, pageVars, segVars, parseVars, fmtVars, pdfVars, fetchVars, refsVars, cfgVars, mainVars>>

\* the call: line 173 decides the value returned
HeadCall ==
    /\ pc = "head_call"
    /\ heading_ret' = is_section_heading(heading_arg)
    /\ pc' = "head_done"
    /\ UNCHANGED heading_arg
    /\ HeadFrame

InitHead ==
    /\ pc = "head_call"
    /\ heading_arg \in StringsUpTo(HeadChars, MaxHeadingLen)
    /\ heading_ret = "none"
    /\ WrapIdle /\ PageIdle /\ SegIdle /\ ParseIdle /\ FmtIdle /\ PdfIdle /\ FetchIdle
    /\ RefsIdle /\ CfgIdle /\ MainIdle

NextHead == HeadCall

SpecHead == InitHead /\ [][NextHead]_vars

\* C12: the value _is_section_heading returns is truthy exactly when the
\* stripped line is non-empty, the line holds no [digits] marker and the line
\* does not begin with a space; empty and blank lines are never headings.
C12_HeadingIffPlainUnindented ==
    pc = "head_done" =>
        /\ Truthy(heading_ret) <=>
              /\ NonBlank(heading_arg)
              /\ MarkerStarts(heading_arg) = {}
              /\ ~Indented(heading_arg)
        /\ ~NonBlank(heading_arg) => ~Truthy(heading_ret)

\* a heading with brackets and a digit that form no marker
C12_Witness ==
    /\ pc = "head_done"
    /\ Truthy(heading_ret)
    /\ heading_arg = <<"a", "[", "1">>

\* C17: _is_section_heading returns the boolean False for the empty string
\* and the boolean True for an unindented non-empty line without a marker.
C17_HeadingReturnsBooleans ==
    pc = "head_done" =>
        /\ heading_arg = <<>> => heading_ret = PyBool(FALSE)
        /\ (/\ NonBlank(heading_arg)
            /\ MarkerStarts(heading_arg) = {}
            /\ ~Indented(heading_arg)) => heading_ret = PyBool(TRUE)

----------------------------------------------------------------------------
(* PDFGenerator._create_body_slides: the loop that turns the elements into  *)
(* wrapped, typed lines (lines 255-283)                                     *)

\* elements as the parser returns them: a heading, a body text, poetry lines
\* without indentation, indented by one space and by two
SampleElements ==
    { Element("heading", <<"a">>),
      Element("body", <<"a", " ", "b">>),
      Element("poetry", <<"a", " ", "b">>),
      Element("poetry", <<" ", "a", " ", "b">>),
      Element("poetry", <<" ", " ", "a", " ", "b", " ", "a">>) }

\* what _parse_passage_elements can return: never body and poetry together,
\* never two body elements in a row
ParserOutput(es) ==
    /\ ~(\E i, j \in DOMAIN es : es[i].type = "body" /\ es[j].type = "poetry")
    /\ \A i \in DOMAIN es :
          i > 1 /\ es[i].type = "body" => es[i - 1].type # "body"

\* the font sizes for which body_font_size * 0.3 is a whole number of tenths
FormatFontSizes == {f \in FontSizes : f % 10 = 0}

\* the element the loop looks at
elem == elements[elem_i]

\* the loop changes formatted_lines only, of what pagination keeps
FormatFrame ==
    UNCHANGED <<font_size, line_index, current_slide, lines_on_slide, pages,
                segVars, parseVars, headVars, pdfVars, fetchVars, refsVars, cfgVars, mainVars>>

\* ('heading', content) (lines 258-260)
FormatHeading ==
    /\ pc = "format_loop"
    /\ elem_i <= Len(elements)
    /\ elem.type = "heading"
    /\ formatted_lines' = Append(formatted_lines, [type |-> "heading", text |-> elem.content])
    /\ elem_i' = elem_i + 1
    /\ UNCHANGED <<pc, leading_spaces, wrapVars>>
    /\ FormatFrame

\* poetry: strip the indentation, narrow the width, call _wrap_text (lines 261-269)
FormatPoetryCall ==
    /\ pc = "format_loop"
    /\ elem_i <= Len(elements)
    /\ elem.type = "poetry"
    /\ LET stripped_text == LStrip(elem.content)
           spaces == Len(elem.content) - Len(stripped_text) IN
          /\ leading_spaces' = spaces
          /\ text' = stripped_text
          /\ max_width' = available_width - indent_offset(spaces)
    /\ pc' = "wrap_call"
    /\ UNCHANGED <<elem_i, formatted_lines, words, lines, current_line, word_i, stringWidth>>
    /\ FormatFrame

\* body text: call _wrap_text with the full width (line 281)
FormatBodyCall ==
    /\ pc = "format_loop"
    /\ elem_i <= Len(elements)
    /\ elem.type = "body"
    /\ text' = elem.content
    /\ max_width' = available_width
    /\ pc' = "wrap_call"
    /\ UNCHANGED <<elem_i, leading_spaces, formatted_lines, words, lines, current_line,
                   word_i, stringWidth>>
    /\ FormatFrame

\* the indent recorded with sub-line i of a poetry element: both branches of
\* `if i == 0` record leading_spaces (lines 274-278)
RecordedIndent(i) == IF i = 1 THEN leading_spaces ELSE leading_spaces

\* back from _wrap_text: one ('poetry', (indent, line)) per sub-line (lines 271-278)
FormatPoetryRecord ==
    /\ pc = "wrap_done"
    /\ elem_i >= 1
    /\ elem.type = "poetry"
    /\ formatted_lines' =
          formatted_lines \o
            [i \in 1..Len(lines) |->
                [type |-> "poetry", text |-> <<RecordedIndent(i), lines[i]>>]]
    /\ elem_i' = elem_i + 1
    /\ pc' = "format_loop"
    /\ UNCHANGED <<leading_spaces, wrapVars>>
    /\ FormatFrame

\* back from _wrap_text: one ('body', line) per sub-line (lines 282-283)
FormatBodyRecord ==
    /\ pc = "wrap_done"
    /\ elem_i >= 1
    /\ elem.type = "body"
    /\ formatted_lines' =
          formatted_lines \o [i \in 1..Len(lines) |-> [type |-> "body", text |-> lines[i]]]
    /\ elem_i' = elem_i + 1
    /\ pc' = "format_loop"
    /\ UNCHANGED <<leading_spaces, wrapVars>>
    /\ FormatFrame

\* the for loop is over
FormatDone ==
    /\ pc = "format_loop"
    /\ elem_i > Len(elements)
    /\ pc' = "format_done"
    /\ UNCHANGED <<elem_i, leading_spaces, formatted_lines, wrapVars>>
    /\ FormatFrame

InitFormat ==
    /\ pc = "format_loop"
    /\ elements \in {es \in StringsUpTo(SampleElements, MaxElements) : ParserOutput(es)}
    /\ font_size \in FormatFontSizes
    /\ elem_i = 1 /\ leading_spaces = 0
    /\ formatted_lines = <<>>
    /\ line_index = 0 /\ current_slide = <<>> /\ lines_on_slide = 0 /\ pages = <<>>
    /\ passage_text = <<>> /\ current_body = <<>> /\ is_poetry_passage = FALSE /\ parse_i = 0
    /\ WrapIdle /\ SegIdle /\ HeadIdle /\ PdfIdle /\ FetchIdle /\ RefsIdle /\ CfgIdle /\ MainIdle

NextFormat ==
    \/ FormatHeading
    \/ FormatPoetryCall
    \/ FormatBodyCall
    \/ WrapStart
    \/ WrapAppend
    \/ WrapBreak
    \/ WrapReturn
    \/ FormatPoetryRecord
    \/ FormatBodyRecord
    \/ FormatDone

SpecFormat == InitFormat /\ [][NextFormat]_vars

\* C14: of the sub-lines a poetry element wraps into, the first is recorded
\* with the element's leading-space count as indent, every later one with 0.
C14_ContinuationIndentZero ==
    (pc = "format_loop" /\ elem_i > 1 /\ elements[elem_i - 1].type = "poetry") =>
        LET n == Len(lines)
            base == Len(formatted_lines) - n IN
        \A i \in 1..n :
            formatted_lines[base + i].text[1] =
                IF i = 1
                THEN Len(elements[elem_i - 1].content)
                       - Len(LStrip(elements[elem_i - 1].content))
                ELSE 0

----------------------------------------------------------------------------
(* PDFGenerator.create_pdf: for each passage a title slide, then            *)
(* _create_body_slides (parse, wrap, paginate); then the canvas is saved    *)

Passage(r, t) == [reference |-> r, text |-> t]

\* passages: a verse, a heading and a verse; a poetry line; and a text of one
\* empty line that yields no body slide
SamplePassages ==
    { Passage("r1", << <<"[", "1", "]", "a", " ", "b">>, <<"a">>, <<"[", "1", "]", "a">> >>),
      Passage("r2", << <<" ", "a", " ", "b">> >>),
      Passage("r3", << <<>> >>) }

\* the passage the loop looks at
passage == passages[passage_i]

TitlePage(r) == [kind |-> "title", reference |-> r, footer |-> <<"ESV">>]

\* a body slide: its lines and the footer f"{reference} | ESV"
BodyPage(slide, r) == [kind |-> "body", lines |-> slide, footer |-> <<r, " | ESV">>]

TitlePagesIfText(p) ==
    IF \E i \in DOMAIN p.text : p.text[i] # <<>> THEN <<TitlePage(p.reference)>> ELSE <<>>

\* _create_title_slide draws the reference and the footer and ends the page
\* with showPage, whatever the text is (lines 97-122)
TitlePages(p) == <<TitlePage(p.reference)>>

StaleLines == formatted_lines

\* `formatted_lines = []` (line 256)
FreshLines == <<>>

\* the pages on the canvas: those of the calls that returned and those the
\* running _create_body_slides has shown so far
CanvasPages ==
    document \o
      (IF passage_i \in DOMAIN passages
       THEN [i \in DOMAIN pages |-> BodyPage(pages[i], passage.reference)]
       ELSE <<>>)

\* the title slide, then _create_body_slides starts: text = passage["text"]
\* and the parser is called (lines 88-89, 247-250)
PdfTitleSlide ==
    /\ pc = "pdf_loop"
    /\ passage_i <= Len(passages)
    /\ document' = document \o TitlePages(passage)
    /\ passage_text' = passage.text
    /\ pages' = <<>>
    /\ pc' = "parse_call"
    /\ UNCHANGED <<passages, passage_i, saves, elements, current_body, is_poetry_passage,
                   parse_i, formatted_lines, font_size, line_index, current_slide,
                   lines_on_slide, wrapVars, segVars, headVars, fmtVars, fetchVars, refsVars, cfgVars, mainVars>>

\* the parser returned: the wrapping loop starts (lines 253-257)
PdfWrapElements ==
    /\ pc = "parse_done"
    /\ passage_i >= 1
    /\ formatted_lines' = FreshLines
    /\ elem_i' = 1
    /\ pc' = "format_loop"
    /\ UNCHANGED <<font_size, line_index, current_slide, lines_on_slide, pages,
                   leading_spaces, wrapVars, segVars, parseVars, headVars, pdfVars, fetchVars, refsVars, cfgVars, mainVars>>

\* the wrapping loop is over: the pagination loop starts (lines 285-291)
PdfPaginate ==
    /\ pc = "format_done"
    /\ passage_i >= 1
    /\ line_index' = 0
    /\ pc' = "page_outer"
    /\ UNCHANGED <<formatted_lines, font_size, current_slide, lines_on_slide, pages,
                   wrapVars, segVars, parseVars, headVars, fmtVars, pdfVars, fetchVars, refsVars, cfgVars, mainVars>>

\* _create_body_slides returned: the for loop of create_pdf moves on
PdfNextPassage ==
    /\ pc = "page_done"
    /\ passage_i >= 1
    /\ document' = CanvasPages
    /\ pages' = <<>>
    /\ passage_i' = passage_i + 1
    /\ pc' = "pdf_loop"
    /\ UNCHANGED <<passages, saves, formatted_lines, font_size, line_index, current_slide,
                   lines_on_slide, wrapVars, segVars, parseVars, headVars, fmtVars, fetchVars, refsVars, cfgVars, mainVars>>

\* after the loop: self.c.save() (line 94)
PdfSave ==
    /\ pc = "pdf_loop"
    /\ passage_i > Len(passages)
    /\ saves' = saves + 1
    /\ pc' = "pdf_done"
    /\ UNCHANGED <<passages, passage_i, document, wrapVars, pageVars, segVars, parseVars,
                   headVars, fmtVars, fetchVars, refsVars, cfgVars, mainVars>>

InitPdf ==
    /\ pc = "pdf_loop"
    /\ passages \in StringsUpTo(SamplePassages, MaxPassages)
    /\ passage_i = 1 /\ document = <<>> /\ saves = 0
    /\ font_size \in FormatFontSizes
    /\ formatted_lines = <<>> /\ line_index = 0
    /\ current_slide = <<>> /\ lines_on_slide = 0 /\ pages = <<>>
    /\ WrapIdle /\ SegIdle /\ ParseIdle /\ HeadIdle /\ FmtIdle /\ FetchIdle /\ RefsIdle /\ CfgIdle /\ MainIdle

NextPdf ==
    \/ PdfTitleSlide
    \/ ParseStart
    \/ ParseBlank
    \/ ParseHeading
    \/ ParseBody
    \/ ParseReturn
    \/ PdfWrapElements
    \/ FormatHeading
    \/ FormatPoetryCall
    \/ FormatBodyCall
    \/ WrapStart
    \/ WrapAppend
    \/ WrapBreak
    \/ WrapReturn
    \/ FormatPoetryRecord
    \/ FormatBodyRecord
    \/ FormatDone
    \/ PdfPaginate
    \/ PageNewSlide
    \/ PageReturn
    \/ PageHeadingPlace
    \/ PageHeadingBreak
    \/ PageBodyPlace
    \/ PageBodyBreak
    \/ PageInnerEnd
    \/ PageEmitSlide
    \/ PageSkipSlide
    \/ PdfNextPassage
    \/ PdfSave

SpecPdf == InitPdf /\ [][NextPdf]_vars

----------------------------------------------------------------------------
(* Claims about create_pdf *)

TitleIndices(doc) == {i \in DOMAIN doc : doc[i].kind = "title"}

\* the position of the k-th title page of doc
NthTitle(doc, k) ==
    CHOOSE i \in TitleIndices(doc) : Cardinality({j \in TitleIndices(doc) : j <= i}) = k

\* the pages after the k-th title page, up to the next title page
PagesAfterTitle(doc, k) ==
    SubSeq(doc, NthTitle(doc, k) + 1,
           IF k < Cardinality(TitleIndices(doc)) THEN NthTitle(doc, k + 1) - 1 ELSE Len(doc))

\* the number of passages create_pdf has started
Started ==
    IF pc = "pdf_loop" THEN passage_i - 1
    ELSE IF pc = "pdf_done" THEN Len(passages)
    ELSE passage_i

\* C15: the canvas holds exactly one title page per passage started, in the
\* order of the passages, each directly followed by the body slides of its own
\* passage and by nothing else, also for a passage without body slide; save
\* is called once, when the last passage is done.
C15_OneTitlePerPassageSavedOnce ==
    LET doc == CanvasPages IN
    /\ Cardinality(TitleIndices(doc)) = Started
    /\ Started >= 1 => NthTitle(doc, 1) = 1
    /\ \A k \in 1..Started :
          LET body == PagesAfterTitle(doc, k) IN
          /\ doc[NthTitle(doc, k)] = TitlePage(passages[k].reference)
          /\ \A i \in DOMAIN body :
                /\ body[i].kind = "body"
                /\ body[i].footer = <<passages[k].reference, " | ESV">>
    /\ saves = IF pc = "pdf_done" THEN 1 ELSE 0
    /\ pc = "pdf_done" => passage_i = Len(passages) + 1

\* a passage without body slide before one with several: two title pages in
\* a row, then body slides, saved
C15_Witness ==
    /\ pc = "pdf_done"
    /\ saves = 1
    /\ Len(passages) = 2
    /\ passages[1].reference = "r3"
    /\ passages[2].reference = "r1"
    /\ document[1].kind = "title"
    /\ document[2].kind = "title"
    /\ Len(document) >= 4

\* C16: the pages of a passage are the same wherever the passage stands in
\* the list: the same passage at two positions, with different passages
\* before it, gets identical pages.
C16_PagesIndependentOfOtherPassages ==
    pc = "pdf_done" =>
        \A i, j \in DOMAIN passages :
            passages[i] = passages[j] =>
                PagesAfterTitle(document, i) = PagesAfterTitle(document, j)

\* the same passage first and last, another one with body slides between
C16_Witness ==
    /\ pc = "pdf_done"
    /\ Len(passages) = 3
    /\ passages[1] = passages[3]
    /\ passages[1] # passages[2]
    /\ Len(PagesAfterTitle(document, 1)) >= 2
    /\ Len(PagesAfterTitle(document, 2)) >= 1

----------------------------------------------------------------------------
(* ESVAPIClient.fetch_passage *)

\* longest passage text of a response, in characters
MaxPassageChars == 2

Whitespace == {" ", "\n"}

\* str.strip(): whitespace of every kind is removed at both ends
RECURSIVE StripWs(_)
StripWs(s) ==
    IF s # <<>> /\ Head(s) \in Whitespace THEN StripWs(Tail(s))
    ELSE IF s # <<>> /\ s[Len(s)] \in Whitespace THEN StripWs(SubSeq(s, 1, Len(s) - 1))
    ELSE s

\* dict.get(key, default)
DictGet(dict, key, default) == IF key \in DOMAIN dict THEN dict[key] ELSE default

\* a dict without keys
EmptyDict == [k \in {} |-> k]

PassageTexts == StringsUpTo({" ", "\n", "t"}, MaxPassageChars)

\* the "passages" of a response: the key is missing, or a list of texts
PassagesParts ==
    {EmptyDict}
      \cup {"passages" :> ps : ps \in {<<>>} \cup {<<t>> : t \in PassageTexts}
                                       \cup {<<<<"t">>, <<"u">>>>, <<<<>>, <<"u">>>>}}

\* entries of "passage_meta": with a canonical reference and without one
MetaEntries == {"canonical" :> "c1", "canonical" :> "c2", "chapter" :> "x"}

\* an entry that is no dict (a JSON string, say), written as a marked value
NoDict == "no_dict" :> TRUE

\* the "passage_meta" of a response: the key is missing, or a list of entries
MetaParts ==
    {EmptyDict}
      \cup {"passage_meta" :> ms :
              ms \in {<<>>} \cup {<<m>> : m \in MetaEntries}
                            \cup {<<"canonical" :> "c1", "canonical" :> "c2">>}
                            \cup {<<NoDict>>}}

StatusCodes == {200, 401, 429, 404, 500}

\* what requests.get can do: raise one of the exceptions the method tells
\* apart, or return a response whose body is JSON or is not
Outcomes ==
    [raises : {"ConnectionError", "Timeout", "RequestException", "Exception"}]
      \cup [status_code : StatusCodes, json : {pp @@ mp : pp \in PassagesParts, mp \in MetaParts}]
      \cup [status_code : StatusCodes, invalid_json : {TRUE}]

FetchFrame ==
    UNCHANGED <<wrapVars, pageVars, segVars, parseVars, headVars, fmtVars, pdfVars, refsVars, cfgVars, mainVars>>

\* requests.get raises (line 61)
FetchRequestRaises ==
    /\ pc = "fetch_call"
    /\ "raises" \in DOMAIN outcome
    /\ raised' = outcome.raises
    /\ pc' = "fetch_except"
    /\ UNCHANGED <<reference, outcome, data, returns, exits>>
    /\ FetchFrame

\* requests.get returns a response (line 61)
FetchRequestReturns ==
    /\ pc = "fetch_call"
    /\ "raises" \notin DOMAIN outcome
    /\ pc' = "fetch_status"
    /\ UNCHANGED fetchVars
    /\ FetchFrame

\* sys.exit(1): SystemExit passes the except clauses, the process ends
Exit1 == exits' = Append(exits, 1) /\ pc' = "fetch_done"

\* status 401 (lines 65-69)
FetchUnauthorized ==
    /\ pc = "fetch_status"
    /\ outcome.status_code = 401
    /\ Exit1
    /\ UNCHANGED <<reference, outcome, data, raised, returns>>
    /\ FetchFrame

\* status 429 (lines 71-75)
FetchRateLimited ==
    /\ pc = "fetch_status"
    /\ outcome.status_code = 429
    /\ Exit1
    /\ UNCHANGED <<reference, outcome, data, raised, returns>>
    /\ FetchFrame

\* any other status that is not 200 (lines 77-81)
FetchOtherStatus ==
    /\ pc = "fetch_status"
    /\ outcome.status_code \notin {401, 429, 200}
    /\ Exit1
    /\ UNCHANGED <<reference, outcome, data, raised, returns>>
    /\ FetchFrame

\* data = response.json() (line 84)
FetchJson ==
    /\ pc = "fetch_status"
    /\ outcome.status_code = 200
    /\ "json" \in DOMAIN outcome
    /\ data' = outcome.json
    /\ pc' = "fetch_parsed"
    /\ UNCHANGED <<reference, outcome, raised, returns, exits>>
    /\ FetchFrame

\* response.json() raises on a body that is no JSON: a JSONDecodeError that
\* is a RequestException, or a ValueError, as the requests version has it
FetchJsonRaises ==
    /\ pc = "fetch_status"
    /\ outcome.status_code = 200
    /\ "json" \notin DOMAIN outcome
    /\ raised' \in {"RequestException", "Exception"}
    /\ pc' = "fetch_except"
    /\ UNCHANGED <<reference, outcome, data, returns, exits>>
    /\ FetchFrame

FirstPassageBlankNever(ps) == FALSE

\* `not data["passages"][0].strip()`
FirstPassageBlank(ps) == StripWs(ps[1]) = <<>>

\* `not data.get("passages") or not data["passages"][0].strip()` (line 88)
NoText ==
    IF DictGet(data, "passages", <<>>) = <<>> THEN TRUE
    ELSE FirstPassageBlank(data["passages"])

\* no passage text (lines 88-92)
FetchNoText ==
    /\ pc = "fetch_parsed"
    /\ NoText
    /\ Exit1
    /\ UNCHANGED <<reference, outcome, data, raised, returns>>
    /\ FetchFrame

\* `data.get("passage_meta") and data["passage_meta"]` (line 96)
HasMeta == DictGet(data, "passage_meta", <<>>) # <<>>

\* data["passage_meta"][0].get(...) raises when the entry is no dict
MetaEntryIsDict == data["passage_meta"][1] # NoDict

CanonicalOfLastEntry(ref) ==
    IF HasMeta
    THEN DictGet(data["passage_meta"][Len(data["passage_meta"])], "canonical", ref)
    ELSE ref

\* canonical_ref (lines 95-97)
canonical_ref(ref) ==
    IF HasMeta THEN DictGet(data["passage_meta"][1], "canonical", ref) ELSE ref

\* the result is built and returned (lines 95-106)
FetchReturn ==
    /\ pc = "fetch_parsed"
    /\ ~NoText
    /\ HasMeta => MetaEntryIsDict
    /\ returns' = Append(returns, [text |-> data["passages"][1],
                                   reference |-> canonical_ref(reference),
                                   passages |-> data["passages"]])
    /\ pc' = "fetch_done"
    /\ UNCHANGED <<reference, outcome, data, raised, exits>>
    /\ FetchFrame

\* .get on an entry that is no dict raises AttributeError (line 97)
FetchMetaRaises ==
    /\ pc = "fetch_parsed"
    /\ ~NoText
    /\ HasMeta /\ ~MetaEntryIsDict
    /\ raised' = "Exception"
    /\ pc' = "fetch_except"
    /\ UNCHANGED <<reference, outcome, data, returns, exits>>
    /\ FetchFrame

\* except requests.exceptions.ConnectionError (lines 108-112)
FetchExceptConnection ==
    /\ pc = "fetch_except"
    /\ raised = "ConnectionError"
    /\ Exit1
    /\ UNCHANGED <<reference, outcome, data, raised, returns>>
    /\ FetchFrame

\* except requests.exceptions.Timeout (lines 114-118)
FetchExceptTimeout ==
    /\ pc = "fetch_except"
    /\ raised = "Timeout"
    /\ Exit1
    /\ UNCHANGED <<reference, outcome, data, raised, returns>>
    /\ FetchFrame

\* except requests.exceptions.RequestException (lines 120-124)
FetchExceptRequest ==
    /\ pc = "fetch_except"
    /\ raised = "RequestException"
    /\ Exit1
    /\ UNCHANGED <<reference, outcome, data, raised, returns>>
    /\ FetchFrame

\* except Exception (lines 126-130)
FetchExceptOther ==
    /\ pc = "fetch_except"
    /\ raised = "Exception"
    /\ Exit1
    /\ UNCHANGED <<reference, outcome, data, raised, returns>>
    /\ FetchFrame

InitFetch ==
    /\ pc = "fetch_call"
    /\ reference \in {"q1", "q2"}
    /\ outcome \in Outcomes
    /\ data = <<>> /\ raised = "" /\ returns = <<>> /\ exits = <<>>
    /\ WrapIdle /\ PageIdle /\ SegIdle /\ ParseIdle /\ HeadIdle /\ FmtIdle /\ PdfIdle
    /\ RefsIdle /\ CfgIdle /\ MainIdle

NextFetch ==
    \/ FetchRequestRaises
    \/ FetchRequestReturns
    \/ FetchUnauthorized
    \/ FetchRateLimited
    \/ FetchOtherStatus
    \/ FetchJson
    \/ FetchJsonRaises
    \/ FetchNoText
    \/ FetchReturn
    \/ FetchMetaRaises
    \/ FetchExceptConnection
    \/ FetchExceptTimeout
    \/ FetchExceptRequest
    \/ FetchExceptOther

SpecFetch == InitFetch /\ [][NextFetch]_vars

----------------------------------------------------------------------------
(* Claims about fetch_passage *)

\* a response with status 200 and JSON whose first passage has a character
\* that is no whitespace
HasContent ==
    /\ "status_code" \in DOMAIN outcome
    /\ outcome.status_code = 200
    /\ "json" \in DOMAIN outcome
    /\ "passages" \in DOMAIN outcome.json
    /\ outcome.json["passages"] # <<>>
    /\ \E k \in DOMAIN outcome.json["passages"][1] :
          outcome.json["passages"][1][k] \notin Whitespace

\* C18: whenever the response is not a 200 with non-whitespace first passage
\* (another status, no passages, a blank first passage, an exception of any
\* kind) fetch_passage exits with code 1 and returns nothing; it returns a
\* result only for a 200 response with content, and then does not exit.
C18_FetchFailuresExitOne ==
    /\ pc # "fetch_done" => returns = <<>> /\ exits = <<>>
    /\ pc = "fetch_done" =>
          /\ ~HasContent => exits = <<1>> /\ returns = <<>>
          /\ returns # <<>> => HasContent /\ exits = <<>>
          /\ Len(returns) + Len(exits) = 1

\* a 200 response whose first passage is a newline and a space: exit 1
C18_Witness ==
    /\ pc = "fetch_done"
    /\ exits = <<1>>
    /\ returns = <<>>
    /\ "json" \in DOMAIN outcome
    /\ outcome.status_code = 200
    /\ "passages" \in DOMAIN outcome.json
    /\ outcome.json["passages"] = << <<"\n", " ">> >>

\* C19: the result of a successful fetch has the first passage as text, the
\* whole list as passages, and as reference the canonical reference of the
\* first passage_meta entry if passage_meta is non-empty and the entry has
\* one, the reference passed in otherwise.
C19_FetchResult ==
    (pc = "fetch_done" /\ returns # <<>>) =>
        LET json == outcome.json IN
        /\ returns[1].text = json["passages"][1]
        /\ returns[1].passages = json["passages"]
        /\ returns[1].reference =
              IF /\ "passage_meta" \in DOMAIN json
                 /\ json["passage_meta"] # <<>>
                 /\ "canonical" \in DOMAIN json["passage_meta"][1]
              THEN json["passage_meta"][1]["canonical"]
              ELSE reference

\* two passages and a passage_meta entry without canonical reference: the
\* reference passed in comes back
C19_Witness ==
    /\ pc = "fetch_done"
    /\ returns # <<>>
    /\ Len(returns[1].passages) = 2
    /\ "passage_meta" \in DOMAIN outcome.json
    /\ outcome.json["passage_meta"] = << "chapter" :> "x" >>
    /\ returns[1].reference = "q2"

----------------------------------------------------------------------------
(* cli.get_references *)

\* most positional references on the command line
MaxArgs == 2
\* longest positional reference, in characters
MaxArgLen == 3
\* longest input file, in characters
MaxFileLen == 3

ArgChars == {",", " ", "a"}
FileChars == {"\n", " ", "a"}

\* s.split(sep) for a one-character separator: the pieces between the
\* separators, empty ones included
SplitOn(s, sep) ==
    LET RECURSIVE go(_, _, _)
        go(i, cur, acc) ==
            IF i > Len(s) THEN Append(acc, cur)
            ELSE IF s[i] = sep THEN go(i + 1, <<>>, Append(acc, cur))
            ELSE go(i + 1, Append(cur, s[i]), acc)
    IN go(1, <<>>, <<>>)

\* `for line in f`: the lines of the file, each with its "\n" if it has one
FileLines(content) ==
    LET RECURSIVE go(_, _, _)
        go(i, cur, acc) ==
            IF i > Len(content)
            THEN IF cur = <<>> THEN acc ELSE Append(acc, cur)
            ELSE IF content[i] = "\n" THEN go(i + 1, <<>>, Append(acc, Append(cur, "\n")))
            ELSE go(i + 1, Append(cur, content[i]), acc)
    IN go(1, <<>>, <<>>)

\* the input file: none given, one that cannot be opened, or its content
Files ==
    [given : {FALSE}]
      \cup [given : {TRUE}, opens : {"FileNotFoundError", "Exception"}]
      \cup [given : {TRUE}, opens : {"ok"}, content : StringsUpTo(FileChars, MaxFileLen)]

\* the argument the loop looks at
ref == args.references[ref_i]

PartsRaw(r) == SplitOn(r, ",")

\* [r.strip() for r in ref.split(",")] (line 126)
Parts(r) == LET parts == SplitOn(r, ",") IN [i \in DOMAIN parts |-> StripWs(parts[i])]

\* [line.strip() for line in f if line.strip()] (line 134)
file_refs ==
    LET ls == FileLines(args.file.content)
        stripped == [i \in DOMAIN ls |-> StripWs(ls[i])]
        keep(l) == l # <<>>
    IN SelectSeq(stripped, keep)

RefsFrame ==
    UNCHANGED <<wrapVars, pageVars, segVars, parseVars, headVars, fmtVars, pdfVars,
                reference, outcome, data, raised, cfgVars, mainVars>>

\* an argument with a comma: its stripped parts (lines 125-126)
RefsSplitArg ==
    /\ pc = "refs_args"
    /\ ref_i <= Len(args.references)
    /\ \E k \in DOMAIN ref : ref[k] = ","
    /\ references' = references \o Parts(ref)
    /\ ref_i' = ref_i + 1
    /\ UNCHANGED <<pc, args, returns, exits>>
    /\ RefsFrame

\* an argument without comma: as given (lines 127-128)
RefsKeepArg ==
    /\ pc = "refs_args"
    /\ ref_i <= Len(args.references)
    /\ ~\E k \in DOMAIN ref : ref[k] = ","
    /\ references' = Append(references, ref)
    /\ ref_i' = ref_i + 1
    /\ UNCHANGED <<pc, args, returns, exits>>
    /\ RefsFrame

\* the arguments are done (also when there is none)
RefsArgsDone ==
    /\ pc = "refs_args"
    /\ ref_i > Len(args.references)
    /\ pc' = "refs_file"
    /\ UNCHANGED <<args, references, ref_i, returns, exits>>
    /\ RefsFrame

\* `if args.file:` is false
RefsNoFile ==
    /\ pc = "refs_file"
    /\ ~args.file.given
    /\ pc' = "refs_return"
    /\ UNCHANGED <<args, references, ref_i, returns, exits>>
    /\ RefsFrame

\* open raises FileNotFoundError (lines 141-144)
RefsFileNotFound ==
    /\ pc = "refs_file"
    /\ args.file.given
    /\ args.file.opens = "FileNotFoundError"
    /\ exits' = Append(exits, 1)
    /\ pc' = "refs_done"
    /\ UNCHANGED <<args, references, ref_i, returns>>
    /\ RefsFrame

\* open or read raises something else (lines 145-148)
RefsFileError ==
    /\ pc = "refs_file"
    /\ args.file.given
    /\ args.file.opens = "Exception"
    /\ exits' = Append(exits, 1)
    /\ pc' = "refs_done"
    /\ UNCHANGED <<args, references, ref_i, returns>>
    /\ RefsFrame

\* the file has no line with content (lines 135-139)
RefsFileEmpty ==
    /\ pc = "refs_file"
    /\ args.file.given
    /\ args.file.opens = "ok"
    /\ file_refs = <<>>
    /\ exits' = Append(exits, 1)
    /\ pc' = "refs_done"
    /\ UNCHANGED <<args, references, ref_i, returns>>
    /\ RefsFrame

\* references.extend(file_refs) (line 140)
RefsFileExtend ==
    /\ pc = "refs_file"
    /\ args.file.given
    /\ args.file.opens = "ok"
    /\ file_refs # <<>>
    /\ references' = references \o file_refs
    /\ pc' = "refs_return"
    /\ UNCHANGED <<args, ref_i, returns, exits>>
    /\ RefsFrame

\* return references (line 150)
RefsReturn ==
    /\ pc = "refs_return"
    /\ returns' = Append(returns, references)
    /\ pc' = "refs_done"
    /\ UNCHANGED <<args, references, ref_i, exits>>
    /\ RefsFrame

InitRefs ==
    /\ pc = "refs_args"
    /\ args \in [references : StringsUpTo(StringsUpTo(ArgChars, MaxArgLen), MaxArgs),
                 file : Files]
    /\ references = <<>>
    /\ ref_i = 1
    /\ WrapIdle /\ PageIdle /\ SegIdle /\ ParseIdle /\ HeadIdle /\ FmtIdle /\ PdfIdle
    /\ FetchIdle /\ CfgIdle /\ MainIdle

NextRefs ==
    \/ RefsSplitArg
    \/ RefsKeepArg
    \/ RefsArgsDone
    \/ RefsNoFile
    \/ RefsFileNotFound
    \/ RefsFileError
    \/ RefsFileEmpty
    \/ RefsFileExtend
    \/ RefsReturn

SpecRefs == InitRefs /\ [][NextRefs]_vars

----------------------------------------------------------------------------
(* Claims about get_references *)

\* s without the whitespace at its ends: from its first to its last
\* character that is no whitespace
Trimmed(s) ==
    LET solid == {k \in DOMAIN s : s[k] \notin Whitespace} IN
    IF solid = {} THEN <<>>
    ELSE SubSeq(s, CHOOSE k \in solid : \A m \in solid : k <= m,
                   CHOOSE k \in solid : \A m \in solid : k >= m)

\* the pieces of s between the characters sep, by the positions of sep
Pieces(s, sep) ==
    LET at == {k \in DOMAIN s : s[k] = sep}
        cuts == at \cup {0, Len(s) + 1}
        starts == cuts \ {Len(s) + 1}
        end(b) == CHOOSE e \in cuts : e > b /\ \A m \in cuts : m > b => e <= m
        nth(i) == CHOOSE b \in starts : Cardinality({c \in starts : c <= b}) = i
    IN [i \in 1..Cardinality(starts) |-> SubSeq(s, nth(i) + 1, end(nth(i)) - 1)]

\* what one positional reference contributes
FromArg(r) ==
    IF \E k \in DOMAIN r : r[k] = ","
    THEN [i \in DOMAIN Pieces(r, ",") |-> Trimmed(Pieces(r, ",")[i])]
    ELSE <<r>>

\* what the input file contributes
FromFile ==
    IF args.file.given
    THEN LET ls == Pieces(args.file.content, "\n")
             trimmed == [i \in DOMAIN ls |-> Trimmed(ls[i])]
             keep(l) == l # <<>>
         IN SelectSeq(trimmed, keep)
    ELSE <<>>

\* C20: the list returned is the positional references in order, an argument
\* with a comma replaced by its stripped parts, followed by the stripped
\* non-blank lines of the file in order, and has as many entries.
C20_ReferencesFromArgsThenFile ==
    (pc = "refs_done" /\ returns # <<>>) =>
        LET expected ==
                Flatten([i \in DOMAIN args.references |-> FromArg(args.references[i])])
                  \o FromFile IN
        /\ returns[1] = expected
        /\ Len(returns[1]) = Len(expected)
        /\ exits = <<>>

\* an argument split into an empty and a stripped part, an argument kept with
\* its leading space, and a file with a blank line before its reference
C20_Witness ==
    /\ pc = "refs_done"
    /\ args.references = << <<",", " ", "a">>, <<" ", "a">> >>
    /\ args.file.given
    /\ args.file.opens = "ok"
    /\ args.file.content = <<"\n", "a", "\n">>
    /\ returns = << << <<>>, <<"a">>, <<" ", "a">>, <<"a">> >> >>

----------------------------------------------------------------------------
(* Further claims about the pagination loop *)

\* the units the k-th wrapped line requires: 1 for a body or poetry line; for
\* a heading 2 on a slide with content and 1 on an empty one, plus 1 if the
\* line after it is a body line
RequiredAt(k, withContent) ==
    IF formatted_lines[k].type = "heading"
    THEN (IF withContent THEN 2 ELSE 1)
           + (IF k + 1 <= Len(formatted_lines) /\ formatted_lines[k + 1].type = "body"
              THEN 1 ELSE 0)
    ELSE 1

\* the inner loop has stopped before a line it did not place
BrokeBefore(types) ==
    /\ pc = "page_emit"
    /\ line_index < Len(formatted_lines)
    /\ line_item.type \in types

\* C23: a break before a body or poetry line happens only when the current
\* slide is non-empty; on an empty slide the line is placed even if
\* max_lines < 1.
C23_BodyPlacedOnEmptySlide ==
    BrokeBefore({"body", "poetry"}) => current_slide # <<>>

\* C24: a heading requires its footprint (2 on a slide with content, 1 as
\* first item) plus 1 exactly when a body line follows it; if the units used
\* plus the required units exceed max_lines and the slide has content, the
\* slide is closed with the heading still to be placed, otherwise the heading
\* is placed and consumes its footprint, on an empty slide whatever max_lines.
C24_HeadingRule ==
    /\ [][(pc = "page_inner" /\ line_index < Len(formatted_lines)
              /\ line_item.type = "heading") =>
            IF /\ lines_on_slide + RequiredAt(line_index + 1, current_slide # <<>>) > max_lines
               /\ current_slide # <<>>
            THEN /\ pc' = "page_emit"
                 /\ line_index' = line_index
                 /\ current_slide' = current_slide
            ELSE /\ current_slide' = Append(current_slide, line_item)
                 /\ lines_on_slide' = lines_on_slide + (IF current_slide = <<>> THEN 1 ELSE 2)
                 /\ line_index' = line_index + 1]_vars
    /\ [](BrokeBefore({"heading"}) => current_slide # <<>>)
    /\ [][BrokeBefore({"heading"}) =>
            pages' = Append(pages, current_slide) /\ line_index' = line_index]_vars

\* a heading that alone would have fit is moved to the next slide because a
\* body line follows it
C24_Witness ==
    /\ BrokeBefore({"heading"})
    /\ lines_on_slide + 2 <= max_lines
    /\ formatted_lines[line_index + 2].type = "body"

\* position in formatted_lines of the first line of slide p
FirstLineOfSlide(p) == Len(Flatten(SubSeq(pages, 1, p - 1))) + 1

\* C25: for every slide but the last, the units used on it plus the units the
\* first line of the next slide required exceed max_lines: a slide is closed
\* only when the next line does not fit (or the input is exhausted).
C25_SlideClosedOnlyWhenFull ==
    \A p \in 1 .. (Len(pages) - 1) :
        lineCount(pages[p]) + RequiredAt(FirstLineOfSlide(p + 1), TRUE) > max_lines

\* a slide closed with a unit to spare, before a heading and its body line
C25_Witness ==
    /\ pc = "page_done"
    /\ Len(pages) = 2
    /\ lineCount(pages[1]) = 1
    /\ max_lines = 3
    /\ pages[2][1].type = "heading"
    /\ Len(pages[2]) = 2

\* C28: for max_lines >= 2 a heading that is immediately followed by a body
\* line is on the same slide as that body line, also as first item.
C28_HeadingWithItsBody ==
    max_lines >= 2 =>
        \A k \in 1 .. (Len(Placed) - 1) :
            (formatted_lines[k].type = "heading" /\ formatted_lines[k + 1].type = "body")
                => SlideOf(k) = SlideOf(k + 1)

\* with max_lines = 2 a heading opens the second slide and its body line
\* fills it
C28_Witness ==
    /\ pc = "page_done"
    /\ max_lines = 2
    /\ Len(pages) >= 2
    /\ pages[2][1].type = "heading"
    /\ Len(pages[2]) = 2 /\ pages[2][2].type = "body"

----------------------------------------------------------------------------
(* PDFGenerator._create_single_body_slide_with_headings: the vertical       *)
(* position, counted in line heights below SLIDE_HEIGHT - MARGIN_TOP        *)

\* y after the loop has rendered the first i items of the slide
RECURSIVE y_after(_, _)
y_after(slide, i) ==
    IF i = 0 THEN 0
    ELSE IF slide[i].type = "heading"
         THEN y_after(slide, i - 1) + (IF i - 1 > 0 THEN 1 ELSE 0) + 1
         ELSE y_after(slide, i - 1) + 1

\* y at the drawString of item i: after the gap of a heading that is not first
baseline(slide, i) ==
    y_after(slide, i - 1) + (IF slide[i].type = "heading" /\ i - 1 > 0 THEN 1 ELSE 0)

\* C29: the units the paginator has charged for a slide it hands to the
\* renderer equal the line heights the renderer moves down on it, so the last
\* baseline of a slide within budget is at most max_lines - 1 line heights
\* below the top margin.
C29_UnitsAreRenderedAdvance ==
    (pc = "page_emit" /\ current_slide # <<>>) =>
        /\ y_after(current_slide, Len(current_slide)) = lines_on_slide
        /\ lines_on_slide <= max_lines =>
              baseline(current_slide, Len(current_slide)) <= max_lines - 1

\* a slide that starts with a heading and has a second heading below it
C29_Witness ==
    /\ pc = "page_emit"
    /\ Len(current_slide) = 2
    /\ current_slide[1].type = "heading"
    /\ current_slide[2].type = "heading"
    /\ lines_on_slide = 3
    /\ baseline(current_slide, 2) = 2

----------------------------------------------------------------------------
(* Further claims about _parse_passage_elements and _wrap_text *)

\* the elements of a prose passage, from its non-blank lines: a heading per
\* heading line; any other line opens a body element or, if a body element
\* follows, is put in front of it with one space
RECURSIVE ProseElements(_)
ProseElements(ks) ==
    IF ks = <<>> THEN <<>>
    ELSE LET rest == ProseElements(Tail(ks)) IN
         IF HeadingLine(Head(ks))
         THEN <<Element("heading", Trimmed(Head(ks)))>> \o rest
         ELSE IF rest # <<>> /\ rest[1].type = "body"
              THEN <<Element("body", Trimmed(Head(ks)) \o <<" ">> \o rest[1].content)>>
                     \o Tail(rest)
              ELSE <<Element("body", Trimmed(Head(ks)))>> \o rest

\* C26: in a passage without indented non-blank line the elements are one
\* heading per heading line and one body element per maximal run of other
\* non-blank lines, the lines stripped and joined by single spaces; blank
\* lines add nothing and end no run, there is no poetry element and no two
\* body elements are adjacent.
C26_ProseRunsBecomeOneBody ==
    (pc = "parse_done"
       /\ ~\E i \in DOMAIN passage_text :
              Indented(passage_text[i]) /\ NonBlank(passage_text[i])) =>
        /\ elements = ProseElements(SelectSeq(passage_text, NonBlank))
        /\ \A i \in DOMAIN elements : elements[i].type # "poetry"
        /\ \A i \in 1 .. (Len(elements) - 1) :
              ~(elements[i].type = "body" /\ elements[i + 1].type = "body")

\* two verse lines around a blank line, joined into one body element that a
\* heading follows
C26_Witness ==
    /\ pc = "parse_done"
    /\ passage_text = << <<"[", "1", "]", "a">>, <<" ">>, <<"[", "1", "]", "a">>, <<"a">> >>
    /\ Len(elements) = 2
    /\ elements[1] = Element("body", <<"[", "1", "]", "a", " ", "[", "1", "]", "a">>)
    /\ elements[2].type = "heading"

\* line i of the result followed by one space and the first word of line i + 1
Overfull(i) == lines[i] \o <<" ">> \o Split(lines[i + 1])[1]

\* C27: wrapping is greedy: for every two consecutive lines, the earlier one
\* joined by one space with the first word of the later one was measured and
\* is wider than max_width.
C27_WrapIsGreedy ==
    \A i \in 1 .. (Len(lines) - 1) :
        /\ Overfull(i) \in DOMAIN stringWidth
        /\ stringWidth[Overfull(i)] > max_width

\* a line of two words closed because the third word made it one too wide
C27_Witness ==
    /\ pc = "wrap_done"
    /\ Len(lines) = 2
    /\ Len(Split(lines[1])) = 2
    /\ stringWidth[Overfull(1)] = max_width + 1

----------------------------------------------------------------------------
\* config.load_config (src/scripture_slides/config.py, lines 45-117)
\*
\* The file is modelled by what open() and yaml.safe_load make of it: open()
\* raises or not, and the text is not YAML, is empty, is a document that is no
\* mapping, or is a mapping.  A value of a mapping is a tagged scalar; an
\* integer is kept as its digits.

YStr(s) == [t |-> "str", v |-> s]
YInt(n) == [t |-> "int", v |-> n]
YBool(b) == [t |-> "bool", v |-> b]
YNull == [t |-> "null", v |-> ""]

\* the key DEFAULT_CONFIG ships with (line 13), tested at line 110
Placeholder == "your-esv-api-key-here"

\* yaml.safe_load of DEFAULT_CONFIG (lines 11-27)
DEFAULT_CONFIG ==
    [kind |-> "mapping",
     map  |-> ("api_endpoint" :> YStr("https://api.esv.org/v3/passage/text/"))
                @@ ("api_key" :> YStr(Placeholder))
                @@ ("output_directory" :> YStr("./output"))
                @@ ("output_type" :> YStr("pdf"))
                @@ ("font" :> YStr("Helvetica"))
                @@ ("font_size" :> YInt("64"))
                @@ ("auto_open" :> YBool("False"))
                @@ ("include_section_headings" :> YBool("True"))
                @@ ("combine_passages" :> YBool("True"))]

\* config_file.exists() is false
NoFile == "no_file" :> TRUE

ApiKeys ==
    {YStr(""), YStr(Placeholder), YStr("k"), YStr("kk"), YNull, YInt("0"), YInt("7")}

KeyParts == {EmptyDict} \cup {"api_key" :> k : k \in ApiKeys}

FontParts == {EmptyDict, "font" :> YStr("Courier")}

SizeParts == {EmptyDict, "font_size" :> YInt("32")}

DirParts == {EmptyDict, "output_directory" :> YStr("out")}

\* what yaml.safe_load can make of the text of the file
Documents ==
    {[kind |-> "error", map |-> EmptyDict],
     [kind |-> "null", map |-> EmptyDict],
     [kind |-> "scalar", map |-> EmptyDict],
     [kind |-> "sequence", map |-> EmptyDict],
     DEFAULT_CONFIG}
      \cup {[kind |-> "mapping", map |-> kp @@ fp @@ sp @@ dp] :
              kp \in KeyParts, fp \in FontParts, sp \in SizeParts, dp \in DirParts}

ConfigFiles ==
    {NoFile}
      \cup {[readable |-> FALSE, doc |-> DEFAULT_CONFIG]}
      \cup [readable : {TRUE}, doc : Documents]

\* bool(v) is False for a YAML value v
Falsy(v) == v \in {YStr(""), YInt("0"), YBool("False"), YNull}

\* Config.__init__ (lines 33-42)
Config(d) ==
    [api_endpoint |-> DictGet(d, "api_endpoint", YStr("https://api.esv.org/v3/passage/text/")),
     api_key |-> DictGet(d, "api_key", YStr("")),
     output_directory |-> DictGet(d, "output_directory", YStr("./output")),
     output_type |-> DictGet(d, "output_type", YStr("pdf")),
     font |-> DictGet(d, "font", YStr("Helvetica")),
     font_size |-> DictGet(d, "font_size", YInt("64")),
     auto_open |-> DictGet(d, "auto_open", YBool("False")),
     include_section_headings |-> DictGet(d, "include_section_headings", YBool("True")),
     combine_passages |-> DictGet(d, "combine_passages", YBool("True"))]

\* create_default_config (lines 45-65): the file after the call, and the
\* value returned
create_default_config(file) ==
    IF file # NoFile
        THEN [file |-> file, ret |-> FALSE]
        ELSE [file |-> [readable |-> TRUE, doc |-> DEFAULT_CONFIG], ret |-> TRUE]

KeyUnsetIgnoresPlaceholder(cfg) == Falsy(cfg.api_key)

\* the test of line 110
KeyUnset(cfg) == Falsy(cfg.api_key) \/ cfg.api_key = YStr(Placeholder)

CfgFrame ==
    UNCHANGED <<wrapVars, pageVars, segVars, parseVars, headVars, fmtVars, pdfVars,
                refsVars, mainVars, reference, outcome, data>>

CfgExit1 == exits' = Append(exits, 1) /\ pc' = "cfg_done"

\* no config file: the default is written, then sys.exit(1) (lines 80-86)
CfgCreateDefault ==
    /\ pc = "cfg_call"
    /\ config_file = NoFile
    /\ config_file' = create_default_config(config_file).file
    /\ CfgExit1
    /\ UNCHANGED <<yaml_data, config, raised, returns>>
    /\ CfgFrame

\* open() raises: except Exception (lines 98-102)
CfgOpenError ==
    /\ pc = "cfg_call"
    /\ config_file # NoFile
    /\ ~config_file.readable
    /\ raised' = "Exception"
    /\ CfgExit1
    /\ UNCHANGED <<config_file, yaml_data, config, returns>>
    /\ CfgFrame

\* yaml.safe_load raises: except yaml.YAMLError (lines 93-97)
CfgYamlError ==
    /\ pc = "cfg_call"
    /\ config_file # NoFile
    /\ config_file.readable
    /\ config_file.doc.kind = "error"
    /\ raised' = "YAMLError"
    /\ CfgExit1
    /\ UNCHANGED <<config_file, yaml_data, config, returns>>
    /\ CfgFrame

\* the file is read and parsed (lines 89-92)
CfgLoad ==
    /\ pc = "cfg_call"
    /\ config_file # NoFile
    /\ config_file.readable
    /\ config_file.doc.kind # "error"
    /\ yaml_data' = config_file.doc
    /\ pc' = "cfg_loaded"
    /\ UNCHANGED <<config_file, config, raised, returns, exits>>
    /\ CfgFrame

\* data is None: data = {} (lines 104-105)
DataOrEmpty == IF yaml_data.kind = "null" THEN [kind |-> "mapping", map |-> EmptyDict] ELSE yaml_data

\* Config(data) for a mapping (line 107)
CfgBuild ==
    /\ pc = "cfg_loaded"
    /\ DataOrEmpty.kind = "mapping"
    /\ config' = Config(DataOrEmpty.map)
    /\ pc' = "cfg_check"
    /\ UNCHANGED <<config_file, yaml_data, raised, returns, exits>>
    /\ CfgFrame

\* Config(data) for a document that is no mapping: data.get raises
\* AttributeError outside the try statement, and the exception leaves
\* load_config (line 107, with line 35)
CfgAttributeError ==
    /\ pc = "cfg_loaded"
    /\ DataOrEmpty.kind # "mapping"
    /\ raised' = "AttributeError"
    /\ pc' = "cfg_done"
    /\ UNCHANGED <<config_file, yaml_data, config, returns, exits>>
    /\ CfgFrame

\* the key is not set (lines 110-115)
CfgKeyUnset ==
    /\ pc = "cfg_check"
    /\ KeyUnset(config)
    /\ CfgExit1
    /\ UNCHANGED <<config_file, yaml_data, config, raised, returns>>
    /\ CfgFrame

\* return config (line 117)
CfgReturn ==
    /\ pc = "cfg_check"
    /\ ~KeyUnset(config)
    /\ returns' = Append(returns, config)
    /\ pc' = "cfg_done"
    /\ UNCHANGED <<config_file, yaml_data, config, raised, exits>>
    /\ CfgFrame

InitConfig ==
    /\ pc = "cfg_call"
    /\ config_file \in ConfigFiles
    /\ yaml_data = <<>> /\ config = <<>>
    /\ reference = "" /\ outcome = <<>> /\ data = <<>>
    /\ raised = "" /\ returns = <<>> /\ exits = <<>>
    /\ WrapIdle /\ PageIdle /\ SegIdle /\ ParseIdle /\ HeadIdle /\ FmtIdle /\ PdfIdle
    /\ RefsIdle /\ MainIdle

NextConfig ==
    \/ CfgCreateDefault
    \/ CfgOpenError
    \/ CfgYamlError
    \/ CfgLoad
    \/ CfgBuild
    \/ CfgAttributeError
    \/ CfgKeyUnset
    \/ CfgReturn

SpecConfig == InitConfig /\ [][NextConfig]_vars

\* an exception that leaves load_config: main calls it outside any try
\* statement (cli.py, line 156), so the interpreter prints the traceback and
\* the process ends with status 1
Uncaught == pc = "cfg_done" /\ raised # "" /\ exits = <<>>

EndedWithOne == exits = <<1>> \/ Uncaught

\* a key counts as empty when it is null, the empty string or zero
EmptyKey(k) == k \in {YNull, YStr(""), YInt("0")}

\* the file exists, parses as a YAML mapping and holds a key that is set
UsableFile(file) ==
    /\ file # NoFile
    /\ file.readable
    /\ file.doc.kind = "mapping"
    /\ "api_key" \in DOMAIN file.doc.map
    /\ ~EmptyKey(file.doc.map["api_key"])
    /\ file.doc.map["api_key"] # YStr(Placeholder)

C21_WitnessDefaultWritten ==
    /\ pc = "cfg_done"
    /\ exits = <<1>>
    /\ yaml_data = <<>> /\ raised = ""
    /\ config_file = [readable |-> TRUE, doc |-> DEFAULT_CONFIG]

----------------------------------------------------------------------------
\* cli.main from the fetch loop on (src/scripture_slides/cli.py, lines
\* 172-210), with utils.sanitize_filename and pdf_generator.generate_pdf.
\*
\* The calls before the loop (parse_args, load_config, get_references) have
\* left args and references; fetch_passage runs as modelled above.  A PDF is
\* modelled by its path and the passages it was generated from; the output
\* directory is the same for every call, so a path is modelled by its
\* filename.

MaxRefs == 2

\* references that differ, and that differ only in a character that
\* sanitize_filename maps away
MainReferences == {<<"a", " ", "a">>, <<"a", ":", "a">>, <<"b", ",">>}

RefLists == UNION {[1..n -> MainReferences] : n \in 0..MaxRefs}

\* args.output: None, a name without and a name with the suffix
Outputs == {<<>>, <<"o">>, <<"o", ".", "p", "d", "f">>}

\* what the service answers in a run: every failure fetch_passage tells
\* apart, and responses with and without a canonical reference
MainOutcomes ==
    [raises : {"ConnectionError", "Timeout", "RequestException", "Exception"}]
      \cup [status_code : {401, 429, 500}, json : {"passages" :> << <<"t">> >>}]
      \cup [status_code : {200}, invalid_json : {TRUE}]
      \cup [status_code : {200},
            json : {EmptyDict,
                    "passages" :> << <<"t">> >>,
                    "passages" :> << <<"u">> >>,
                    ("passages" :> << <<"t">> >>) @@ ("passage_meta" :> <<NoDict>>),
                    ("passages" :> << <<"t">> >>)
                       @@ ("passage_meta" :> <<"canonical" :> <<"a", " ", "a">> >>)}]

\* str.replace(old, new) for a one-character old
RECURSIVE Replace(_, _, _)
Replace(s, old, new) ==
    IF s = <<>> THEN <<>>
    ELSE (IF Head(s) = old THEN new ELSE <<Head(s)>>) \o Replace(Tail(s), old, new)

SanitizeKeepsColon(t) ==
    Replace(Replace(Replace(t, " ", <<"_">>), ",", <<>>), ";", <<>>)

\* utils.sanitize_filename (lines 54-69)
sanitize_filename(t) ==
    Replace(Replace(Replace(Replace(t, " ", <<"_">>), ":", <<"_">>), ",", <<>>), ";", <<>>)

PdfSuffix == <<".", "p", "d", "f">>

\* str.endswith
EndsWith(s, suffix) ==
    /\ Len(s) >= Len(suffix)
    /\ SubSeq(s, Len(s) - Len(suffix) + 1, Len(s)) = suffix

\* f"scripture_{timestamp}.pdf" (lines 484-485), for the minute of the call
TimestampName == <<"s", "_", "T">> \o PdfSuffix

\* generate_pdf (lines 466-497): the path it writes and returns
output_path(output_filename) ==
    IF output_filename # <<>>
        THEN IF EndsWith(output_filename, PdfSuffix)
                THEN output_filename
                ELSE output_filename \o PdfSuffix
        ELSE TimestampName

\* PDFGenerator(output_path).create_pdf(passages): the file at the path is
\* written anew
create_pdf(path, ps) == (path :> ps) @@ disk

FetchLoopEndsAtOnce == fetch_i >= 1

\* the for loop over references has run out (line 175)
FetchLoopEnds == fetch_i > Len(references)

MainFrame ==
    UNCHANGED <<wrapVars, pageVars, segVars, parseVars, headVars, fmtVars, pdfVars,
                cfgVars, args, references, ref_i>>

\* result = client.fetch_passage(ref): the call (lines 175-177)
MainFetchCall ==
    /\ pc = "main_fetch"
    /\ ~FetchLoopEnds
    /\ reference' = references[fetch_i]
    /\ outcome' \in MainOutcomes
    /\ data' = <<>> /\ raised' = "" /\ returns' = <<>>
    /\ pc' = "fetch_call"
    /\ UNCHANGED <<exits, mainVars>>
    /\ MainFrame

\* passages.append(result) (lines 178-179); a call that ended in sys.exit
\* returns nothing and main goes no further
MainFetchAppend ==
    /\ pc = "fetch_done"
    /\ fetch_i >= 1
    /\ returns # <<>>
    /\ main_passages' = Append(main_passages, returns[1])
    /\ fetch_i' = fetch_i + 1
    /\ pc' = "main_fetch"
    /\ UNCHANGED <<separate, output, generated_files, gen_i, disk, fetchVars>>
    /\ MainFrame

\* the loop is over: `if args.separate` (lines 181-184)
MainGenerate ==
    /\ pc = "main_fetch"
    /\ FetchLoopEnds
    /\ pc' = IF separate THEN "main_separate" ELSE "main_combined"
    /\ gen_i' = 1
    /\ UNCHANGED <<separate, output, main_passages, fetch_i, generated_files, disk,
                   fetchVars>>
    /\ MainFrame

\* one pass of the loop over passages (lines 186-192)
MainSeparateOne ==
    /\ pc = "main_separate"
    /\ gen_i <= Len(main_passages)
    /\ LET p == main_passages[gen_i]
           filename == sanitize_filename(p.reference) \o PdfSuffix
       IN /\ disk' = create_pdf(output_path(filename), <<p>>)
          /\ generated_files' = Append(generated_files, output_path(filename))
    /\ gen_i' = gen_i + 1
    /\ UNCHANGED <<pc, separate, output, main_passages, fetch_i, fetchVars>>
    /\ MainFrame

\* the loop over passages is over (lines 194-198)
MainSeparateDone ==
    /\ pc = "main_separate"
    /\ gen_i > Len(main_passages)
    /\ pc' = "main_done"
    /\ UNCHANGED <<mainVars, fetchVars>>
    /\ MainFrame

\* the combined PDF (lines 200-210)
MainCombined ==
    /\ pc = "main_combined"
    /\ disk' = create_pdf(output_path(output), main_passages)
    /\ pc' = "main_done"
    /\ UNCHANGED <<separate, output, main_passages, fetch_i, generated_files, gen_i,
                   fetchVars>>
    /\ MainFrame

InitMain ==
    /\ pc = "main_fetch"
    /\ args = <<>> /\ ref_i = 0
    /\ references \in RefLists
    /\ separate \in BOOLEAN
    /\ output \in Outputs
    /\ main_passages = <<>> /\ fetch_i = 1
    /\ generated_files = <<>> /\ gen_i = 0 /\ disk = <<>>
    /\ FetchIdle
    /\ WrapIdle /\ PageIdle /\ SegIdle /\ ParseIdle /\ HeadIdle /\ FmtIdle /\ PdfIdle
    /\ CfgIdle

NextMain ==
    \/ MainFetchCall
    \/ FetchRequestRaises
    \/ FetchRequestReturns
    \/ FetchUnauthorized
    \/ FetchRateLimited
    \/ FetchOtherStatus
    \/ FetchJson
    \/ FetchJsonRaises
    \/ FetchNoText
    \/ FetchReturn
    \/ FetchMetaRaises
    \/ FetchExceptConnection
    \/ FetchExceptTimeout
    \/ FetchExceptRequest
    \/ FetchExceptOther
    \/ MainFetchAppend
    \/ MainGenerate
    \/ MainSeparateOne
    \/ MainSeparateDone
    \/ MainCombined

SpecMain == InitMain /\ [][NextMain]_vars

\* C22: with --separate, a run that fetched n passages ends with n PDFs at n
\* distinct paths, and each passage's PDF is still the file at its path.
C22_SeparatePdfsDistinct ==
    pc = "main_done" /\ separate =>
        /\ Len(generated_files) = Len(main_passages)
        /\ Cardinality(DOMAIN disk) = Len(main_passages)
        /\ \A i \in 1..Len(main_passages) :
              disk[generated_files[i]] = <<main_passages[i]>>

\* the run has started to generate PDFs
Generating ==
    \/ disk # <<>>
    \/ generated_files # <<>>
    \/ pc \in {"main_separate", "main_combined", "main_done"}

\* C30: the references are fetched in the order given, all of them before any
\* PDF is generated; a fetch that fails ends the process with code 1, nothing
\* runs after it, and no PDF exists, whatever was fetched before.
C30_FetchAllBeforeGenerating ==
    /\ [][pc' = "fetch_call" =>
            /\ Len(main_passages) < Len(references)
            /\ reference' = references[Len(main_passages) + 1]]_vars
    /\ [][main_passages' # main_passages =>
            /\ Len(main_passages') = Len(main_passages) + 1
            /\ SubSeq(main_passages', 1, Len(main_passages)) = main_passages
            /\ reference = references[Len(main_passages')]
            /\ main_passages'[Len(main_passages')].reference
                  \in {reference, <<"a", " ", "a">>}]_vars
    /\ [](Generating => Len(main_passages) = Len(references) /\ exits = <<>>)
    /\ [](pc = "fetch_done" /\ returns = <<>> => exits = <<1>>)
    /\ [](exits # <<>> =>
            /\ exits = <<1>>
            /\ disk = <<>> /\ generated_files = <<>>)
    /\ [][exits = <<>>]_vars

\* the second fetch failed after the first had succeeded
C30_Witness ==
    /\ exits = <<1>>
    /\ Len(references) = 2
    /\ Len(main_passages) = 1
    /\ disk = <<>>

\* both references were fetched and the PDFs generated
C30_WitnessGenerated ==
    /\ pc = "main_done"
    /\ Len(main_passages) = 2
    /\ references[1] # references[2]
    /\ main_passages[1].reference = references[1]
    /\ main_passages[2].reference = references[2]
    /\ disk # <<>>

====
